---- MODULE Spec2Model ----
(***************************************************************************)
(* Model of the render-and-mix pipeline of Sound Design Studio             *)
(* (simple_audio_player.py, audio_effects.py, soundfont_player.py).        *)
(*                                                                         *)
(* Samples are exact rationals <<n, d>> (d > 0, lowest terms); the float   *)
(* "not a number" that numpy produces for the mean of an empty slice is    *)
(* the distinguished value NaN.  A numpy array is a record                 *)
(* [ndim, data]: ndim = 1 is a vector of Len(data) samples, ndim = 2 is    *)
(* the column array of shape (Len(data), 1) that audio.reshape(-1, 1)      *)
(* yields.                                                                 *)
(***************************************************************************)
EXTENDS Integers, Sequences, FiniteSets, TLC

\* ------------------------------------------------------------------------
\* Bounds of the model (not program constants)
\* ------------------------------------------------------------------------
MaxLayers == 3

\* The player's sample rate.  EnhancedAudioPlayer.SAMPLE_RATE is 44100; the
\* model runs the same code at a rate of SampleRate samples per second so
\* that a rendered buffer has a handful of samples (the note of at least
\* 0.1 s that SoundFontPlayer.generate_note renders has SampleRate/10).
SampleRate == 20
MaxEchoLen == 4
MaxEditorLayers == 2
MaxTime == 7

\* ------------------------------------------------------------------------
\* Exact rational arithmetic
\* ------------------------------------------------------------------------
Abs(x) == IF x < 0 THEN -x ELSE x

RECURSIVE GCD(_, _)
GCD(a, b) == IF b = 0 THEN a ELSE GCD(b, a % b)

Norm(n, d) ==
    LET g == GCD(Abs(n), d)
    IN  IF n = 0 THEN <<0, 1>> ELSE <<n \div g, d \div g>>

Q(n, d) == Norm(n, d)
Zero == <<0, 1>>
One == <<1, 1>>
NaN == <<0, 0>>

IsNaN(a) == a[2] = 0

RNeg(a) == IF IsNaN(a) THEN NaN ELSE <<-a[1], a[2]>>

RAdd(a, b) ==
    IF IsNaN(a) \/ IsNaN(b) THEN NaN
    ELSE LET g == GCD(a[2], b[2])
         IN  Norm(a[1] * (b[2] \div g) + b[1] * (a[2] \div g),
                  (a[2] \div g) * b[2])

RSub(a, b) == RAdd(a, RNeg(b))

RMul(a, b) ==
    IF IsNaN(a) \/ IsNaN(b) THEN NaN
    ELSE LET g1 == GCD(Abs(a[1]), b[2])
             g2 == GCD(Abs(b[1]), a[2])
         IN  IF a[1] = 0 \/ b[1] = 0 THEN Zero
             ELSE Norm((a[1] \div g1) * (b[1] \div g2),
                       (a[2] \div g2) * (b[2] \div g1))

\* a / b for b # 0
RDiv(a, b) ==
    IF IsNaN(a) \/ IsNaN(b) THEN NaN
    ELSE IF b[1] > 0 THEN RMul(a, <<b[2], b[1]>>)
    ELSE RMul(a, <<-b[2], -b[1]>>)

\* float comparisons: every comparison with NaN is false
RLt(a, b) == ~IsNaN(a) /\ ~IsNaN(b) /\ a[1] * b[2] < b[1] * a[2]
RLe(a, b) == ~IsNaN(a) /\ ~IsNaN(b) /\ a[1] * b[2] <= b[1] * a[2]
RGt(a, b) == RLt(b, a)

RAbs(a) == IF IsNaN(a) THEN NaN ELSE <<Abs(a[1]), a[2]>>

\* Python int(x): truncation toward zero
Trunc(a) == IF a[1] >= 0 THEN a[1] \div a[2] ELSE -((-a[1]) \div a[2])

\* floor(x)
Floor(a) == a[1] \div a[2]

Min(x, y) == IF x <= y THEN x ELSE y
Max(x, y) == IF x >= y THEN x ELSE y

\* ------------------------------------------------------------------------
\* numpy helpers on sample sequences
\* ------------------------------------------------------------------------
\* np.linspace(start, stop, num) with the end point included
Linspace(start, stop, num) ==
    [j \in 1..num |->
        IF num = 1 THEN start
        ELSE RAdd(start, RMul(Q(j - 1, num - 1), RSub(stop, start)))]

\* np.zeros(n)
Zeros(n) == [j \in 1..n |-> Zero]

\* x * scalar
Scale(s, k) == [j \in 1..Len(s) |-> RMul(s[j], k)]

\* np.clip(x, -1.0, 1.0): NaN stays NaN
ClipSample(x) ==
    IF IsNaN(x) THEN NaN
    ELSE IF RLt(x, RNeg(One)) THEN RNeg(One)
    ELSE IF RGt(x, One) THEN One
    ELSE x

Clip(s) == [j \in 1..Len(s) |-> ClipSample(s[j])]

\* np.max(np.abs(x)) of a non-empty sequence; NaN propagates
RECURSIVE PeakFrom(_, _)
PeakFrom(s, j) ==
    IF j > Len(s) THEN Zero
    ELSE LET rest == PeakFrom(s, j + 1)
         IN  IF IsNaN(s[j]) \/ IsNaN(rest) THEN NaN
             ELSE IF RGt(RAbs(s[j]), rest) THEN RAbs(s[j]) ELSE rest

Peak(s) == PeakFrom(s, 1)

\* ------------------------------------------------------------------------
\* Array values: [ok, ndim, data].  ok = FALSE is a raised exception.
\* ------------------------------------------------------------------------
Vec(seq) == [ok |-> TRUE, ndim |-> 1, data |-> seq]
Col(seq) == [ok |-> TRUE, ndim |-> 2, data |-> seq]
Raised == [ok |-> FALSE, ndim |-> 0, data |-> <<>>]
NoArray == Raised

ArrLen(a) == Len(a.data)                     \* len(audio)
ClipArr(a) == [a EXCEPT !.data = Clip(a.data)]
ScaleArr(a, k) == [a EXCEPT !.data = Scale(a.data, k)]

\* result / max_val, the peak normalisation used by the renderers
DivideBy(seq, max_val) == [j \in 1..Len(seq) |-> RDiv(seq[j], max_val)]

\* ------------------------------------------------------------------------
\* EnhancedAudioPlayer._generate_waveform
\* ------------------------------------------------------------------------
Frac(x) == RSub(x, Q(Floor(x), 1))

\* Bhaskara's rational sine on half a period: 16p/(5-4p), p = u(1-u), u in [0,1]
HalfSine(p) == RDiv(RMul(Q(16, 1), p), RSub(Q(5, 1), RMul(Q(4, 1), p)))
HalfSineAt(u) == HalfSine(RMul(u, RSub(One, u)))

\* sin(2*pi*x) for the fractional part f of x.  Exact at every quarter
\* period (0, 1, 0, -1); between them the rational value of Bhaskara's
\* formula stands for the float np.sin returns (it is within 0.002 of it).
SinOfFrac(f) ==
    IF RLe(Q(1, 2), f)
    THEN RNeg(HalfSineAt(RMul(Q(2, 1), RSub(f, Q(1, 2)))))
    ELSE HalfSineAt(RMul(Q(2, 1), f))

Sin2Pi(x) == SinOfFrac(Frac(x))

Sign(x) == IF x[1] > 0 THEN One ELSE IF x[1] < 0 THEN RNeg(One) ELSE Zero

\* mutation: the ramp is never wrapped back
SawUnwrapped(x) == RMul(Q(2, 1), x)

\* 2 * (t*f - floor(t*f + 0.5))
Saw(x) == RMul(Q(2, 1), RSub(x, Q(Floor(RAdd(x, Q(1, 2))), 1)))

\* mutation: the sine is taken a quarter of a cycle ahead (a cosine)
WaveSampleCosine(x, wave_type) ==
    IF wave_type = "square" THEN Sign(Sin2Pi(x))
    ELSE IF wave_type = "sawtooth" THEN Saw(x)
    ELSE IF wave_type = "triangle" THEN RSub(RMul(Q(2, 1), RAbs(Saw(x))), One)
    ELSE Sin2Pi(RAdd(x, Q(1, 4)))

WaveSample(x, wave_type) ==
    IF wave_type = "sine" THEN Sin2Pi(x)
    ELSE IF wave_type = "square" THEN Sign(Sin2Pi(x))
    ELSE IF wave_type = "sawtooth" THEN Saw(x)
    ELSE IF wave_type = "triangle" THEN RSub(RMul(Q(2, 1), RAbs(Saw(x))), One)
    ELSE Sin2Pi(x)

\* t is the sequence of sample times, frequency a rational
GenerateWaveform(t, frequency, wave_type) ==
    [j \in 1..Len(t) |-> WaveSample(RMul(frequency, t[j]), wave_type)]

\* int(self.sample_rate * config.duration)
NumSamples(sample_rate, duration) == Trunc(RMul(Q(sample_rate, 1), duration))

\* np.linspace(0, duration, num_samples, False)
TimeVector(duration, num_samples) ==
    [j \in 1..num_samples |-> RMul(Q(j - 1, num_samples), duration)]

\* elementwise a + b * k
AddScaled(a, b, k) == [j \in 1..Len(a) |-> RAdd(a[j], RMul(b[j], k))]

\* ------------------------------------------------------------------------
\* EnhancedAudioPlayer._apply_harmonics (sequence in, array value out)
\* ------------------------------------------------------------------------
\* if volume > 0: result += waveform(freq * ratio) * volume
AddPartial(result, t, config, ratio, volume) ==
    IF RGt(volume, Zero)
    THEN AddScaled(result,
                   GenerateWaveform(t, RMul(config.frequency, ratio), config.wave_type),
                   volume)
    ELSE result

\* mutation: the sum is returned as it is, whatever its peak
NormalizeAboveNever(result, max_val) == Vec(result)

\* max_val = np.max(np.abs(result)); if max_val > 1.0: result / max_val
NormalizeAbove(result, max_val) ==
    IF RGt(max_val, One) THEN Vec(DivideBy(result, max_val)) ELSE Vec(result)

NormalizeHarmonics(result) ==
    IF Len(result) = 0 THEN Raised            \* np.max of a zero-size array
    ELSE NormalizeAbove(result, Peak(result))

ApplyHarmonics(audio, t, config) ==
    NormalizeHarmonics(
        AddPartial(
            AddPartial(
                AddPartial(audio, t, config, Q(2, 1), config.harmonics.octave_volume),
                t, config, Q(3, 2), config.harmonics.fifth_volume),
            t, config, Q(1, 2), config.harmonics.sub_bass_volume))

\* ------------------------------------------------------------------------
\* EnhancedAudioPlayer._apply_blending
\* ------------------------------------------------------------------------
\* audio * (1 - blend_ratio) + secondary * blend_ratio
Blend(audio, secondary, blend_ratio) ==
    [j \in 1..Len(audio) |->
        RAdd(RMul(audio[j], RSub(One, blend_ratio)), RMul(secondary[j], blend_ratio))]

\* blend_ratio = config.blending.get('blend_ratio', 0.5) / 100.0
BlendRatio(config) == RDiv(config.blending.blend_ratio, Q(100, 1))

ApplyBlending(audio, t, config) ==
    IF config.wave_type = "square"
    THEN Blend(audio, GenerateWaveform(t, config.frequency, "triangle"), BlendRatio(config))
    ELSE IF config.wave_type = "sawtooth"
    THEN Blend(audio, GenerateWaveform(t, config.frequency, "sine"), BlendRatio(config))
    ELSE audio

\* ------------------------------------------------------------------------
\* EnhancedAudioPlayer._apply_adsr: the four phase lengths
\* ------------------------------------------------------------------------
\* mutation: the decay phase is not taken out of what remains
AdsrRemainingForgetsDecay(num_samples, attack_samples, decay_samples) ==
    num_samples - attack_samples

AdsrRemaining(num_samples, attack_samples, decay_samples) ==
    num_samples - attack_samples - decay_samples

AdsrSustain(remaining, release_samples) ==
    Max(0, remaining - release_samples)

AdsrCounts(sample_rate, num_samples, attack, decay, release) ==
    LET attack0  == Trunc(RMul(attack, Q(sample_rate, 1)))
        decay0   == Trunc(RMul(decay, Q(sample_rate, 1)))
        release0 == Trunc(RMul(release, Q(sample_rate, 1)))
        attack_samples  == Min(attack0, num_samples)
        decay_samples   == Min(decay0, num_samples - attack_samples)
        remaining       == AdsrRemaining(num_samples, attack_samples, decay_samples)
        release_samples == Min(release0, remaining)
        sustain_samples == AdsrSustain(remaining, release_samples)
    IN  [attack |-> attack_samples, decay |-> decay_samples,
         sustain |-> sustain_samples, release |-> release_samples]

\* ------------------------------------------------------------------------
\* EnhancedAudioPlayer._apply_adsr: the envelope and its application.
\* The envelope under construction is [ok, env, idx]: the array, and
\* current_idx; ok = FALSE once an assignment has raised.
\* ------------------------------------------------------------------------
EnvelopeStart(num_samples) == [ok |-> TRUE, env |-> Zeros(num_samples), idx |-> 0]
EnvelopeRaised == [ok |-> FALSE, env |-> <<>>, idx |-> 0]

\* envelope[lo:hi] = vals, lo and hi already cut at the end of the array;
\* a value array that is neither of the slice's length nor of length 1 raises
SliceStore(e, lo, hi, vals, count) ==
    IF hi - lo = Len(vals)
    THEN [ok |-> TRUE, idx |-> e.idx + count,
          env |-> [j \in 1..Len(e.env) |->
                      IF j > lo /\ j <= hi THEN vals[j - lo] ELSE e.env[j]]]
    ELSE IF Len(vals) = 1
    THEN [ok |-> TRUE, idx |-> e.idx + count,
          env |-> [j \in 1..Len(e.env) |->
                      IF j > lo /\ j <= hi THEN vals[1] ELSE e.env[j]]]
    ELSE EnvelopeRaised

\* envelope[current_idx:current_idx + count] = vals; current_idx += count
SliceAssign(e, vals, count) ==
    SliceStore(e, Min(e.idx, Len(e.env)), Min(e.idx + Len(vals), Len(e.env)), vals, count)

\* envelope[current_idx:current_idx + count] = level; current_idx += count
SliceFill(e, count, level) ==
    [ok |-> TRUE, idx |-> e.idx + count,
     env |-> [j \in 1..Len(e.env) |->
                 IF j > e.idx /\ j <= e.idx + count THEN level ELSE e.env[j]]]

AttackPhase(e, c) ==
    IF c.attack > 0 THEN SliceAssign(e, Linspace(Zero, One, c.attack), c.attack) ELSE e

DecayPhase(e, c, config) ==
    IF e.ok /\ c.decay > 0
    THEN SliceAssign(e, Linspace(One, config.sustain, c.decay), c.decay)
    ELSE e

SustainPhase(e, c, config) ==
    IF e.ok /\ c.sustain > 0 THEN SliceFill(e, c.sustain, config.sustain) ELSE e

\* start_level = config.sustain if current_idx > 0 else 1.0
StartLevel(e, config) == IF e.idx > 0 THEN config.sustain ELSE One

\* actual_release = min(release_samples, num_samples - current_idx)
ActualRelease(e, c) == Min(c.release, Len(e.env) - e.idx)

ReleasePhase(e, c, config) ==
    IF e.ok /\ c.release > 0 /\ ActualRelease(e, c) > 0
    THEN SliceAssign(e, Linspace(StartLevel(e, config), Zero, ActualRelease(e, c)), 0)
    ELSE e

EnvelopeFromCounts(c, num_samples, config) ==
    ReleasePhase(
        SustainPhase(
            DecayPhase(AttackPhase(EnvelopeStart(num_samples), c), c, config),
            c, config),
        c, config)

AdsrEnvelope(sample_rate, num_samples, config) ==
    EnvelopeFromCounts(
        AdsrCounts(sample_rate, num_samples, config.attack, config.decay, config.release),
        num_samples, config)

\* audio * envelope
MultiplyEnvelope(audio, e) ==
    IF e.ok THEN Vec([j \in 1..Len(audio) |-> RMul(audio[j], e.env[j])]) ELSE Raised

\* audio is a sample sequence; the result is an array value
ApplyAdsr(sample_rate, audio, config) ==
    MultiplyEnvelope(audio, AdsrEnvelope(sample_rate, Len(audio), config))

\* what one _apply_adsr call worked with: the buffer length and the counts
AdsrCall(sample_rate, audio, config) ==
    [num_samples |-> Len(audio),
     counts |-> AdsrCounts(sample_rate, Len(audio),
                           config.attack, config.decay, config.release)]

\* ------------------------------------------------------------------------
\* EnhancedAudioPlayer._apply_advanced: returns the audio it is given
\* ------------------------------------------------------------------------
\* mutation: the hook applies a tremolo at half depth
ApplyAdvancedTremolo(audio, t, config) == Scale(audio, Q(1, 2))

ApplyAdvanced(audio, t, config) == audio

\* ------------------------------------------------------------------------
\* EnhancedAudioPlayer._generate_audio_synthesis, and the synthesis tail of
\* _generate_audio, which is the same code.  The result is [audio, adsr]:
\* the array (or the exception) and the _apply_adsr calls that were made.
\* ------------------------------------------------------------------------
\* audio = self._generate_waveform(...); if harmonics enabled: _apply_harmonics
Harmonized(config, t) ==
    IF config.harmonics.enabled
    THEN ApplyHarmonics(GenerateWaveform(t, config.frequency, config.wave_type), t, config)
    ELSE Vec(GenerateWaveform(t, config.frequency, config.wave_type))

\* if blending enabled and wave_type != 'sine': _apply_blending
Blended(audio, t, config) ==
    IF audio.ok /\ config.blending.enabled /\ config.wave_type # "sine"
    THEN Vec(ApplyBlending(audio.data, t, config))
    ELSE audio

\* if advanced enabled: _apply_advanced
Advanced(audio, t, config) ==
    IF audio.ok /\ config.advanced.enabled
    THEN Vec(ApplyAdvanced(audio.data, t, config))
    ELSE audio

\* audio = self._apply_adsr(audio, config) and what follows it
Enveloped(sample_rate, audio, t, config) ==
    IF ~audio.ok THEN [audio |-> Raised, adsr |-> <<>>]
    ELSE [audio |-> Advanced(ApplyAdsr(sample_rate, audio.data, config), t, config),
          adsr  |-> <<AdsrCall(sample_rate, audio.data, config)>>]

SynthesisAt(sample_rate, config, t) ==
    Enveloped(sample_rate, Blended(Harmonized(config, t), t, config), t, config)

GenerateAudioSynthesis(sample_rate, config) ==
    IF NumSamples(sample_rate, config.duration) < 0
    THEN [audio |-> Raised, adsr |-> <<>>]      \* np.linspace: negative num
    ELSE SynthesisAt(sample_rate, config,
                     TimeVector(config.duration, NumSamples(sample_rate, config.duration)))

\* ------------------------------------------------------------------------
\* The files the program reads (environment)
\* ------------------------------------------------------------------------
\* Path.exists() for SoundFont files
ExistingSoundFonts == {"/sf/piano.sf2", "/cwd/piano.sf2"}

\* str(Path(p).absolute()): a relative path is resolved against the cwd
AbsolutePath(p) == IF p = "piano.sf2" THEN "/cwd/piano.sf2" ELSE p

\* soundfile.read(path): the samples of a recording, or an exception
ReadAudioFile(path) ==
    IF path = "rec_a.wav" THEN Vec(<<Q(4, 5), Q(-2, 5)>>)
    ELSE IF path = "rec_b.wav" THEN Vec(<<Q(1, 2), Q(-1, 1), Q(1, 10)>>)
    ELSE Raised

\* ------------------------------------------------------------------------
\* SoundFontPlayer.  State: [enabled, synth, soundfont_id,
\* current_soundfont_path, loaded, channel]; loaded and channel are the
\* FluidSynth synth's own state (fonts loaded, font selected on channel 0).
\* A font's id is modelled by the absolute path it was loaded from.
\* ------------------------------------------------------------------------
\* SoundFontPlayer.__init__ / _initialize_synth
NewSoundFontPlayer(fluidsynth_available) ==
    [enabled |-> fluidsynth_available, synth |-> fluidsynth_available,
     soundfont_id |-> "None", current_soundfont_path |-> "None",
     loaded |-> {}, channel |-> "None"]

\* synth.sfunload(id): the font leaves the synth and a channel that played
\* it is left without a preset
SfUnload(sfp, id) ==
    [sfp EXCEPT !.loaded = @ \ {id},
                !.channel = IF @ = id THEN "None" ELSE @]

\* if self.soundfont_id is not None: self.synth.sfunload(self.soundfont_id)
UnloadPrevious(sfp) ==
    IF sfp.soundfont_id # "None" THEN SfUnload(sfp, sfp.soundfont_id) ELSE sfp

\* the rest of load_soundfont, on the player after the unload
LoadPath(unloaded, path) ==
    IF path \notin ExistingSoundFonts
    THEN [ret |-> FALSE, sfp |-> unloaded]
    ELSE [ret |-> TRUE,
          sfp |-> [unloaded EXCEPT !.soundfont_id = path,
                                   !.current_soundfont_path = path,
                                   !.loaded = @ \cup {path},
                                   !.channel = path]]

\* SoundFontPlayer.load_soundfont: [ret, sfp]
LoadSoundfont(sfp, soundfont_path) ==
    IF ~sfp.enabled \/ ~sfp.synth THEN [ret |-> FALSE, sfp |-> sfp]
    ELSE LoadPath(UnloadPrevious(sfp), AbsolutePath(soundfont_path))

\* synth.get_samples(n) after noteon: what FluidSynth renders for a channel
\* with a preset (a tone, here a fixed alternating signal), silence otherwise
FluidSamples(channel, n) ==
    IF channel = "None" THEN Zeros(n)
    ELSE [j \in 1..n |-> IF j % 2 = 1 THEN Q(1, 2) ELSE Q(-1, 4)]

\* synth.program_select(0, soundfont_id, bank, program): fails, leaving the
\* channel as it was, for a font that is not loaded
ProgramSelect(sfp) ==
    IF sfp.soundfont_id \in sfp.loaded
    THEN [sfp EXCEPT !.channel = sfp.soundfont_id]
    ELSE sfp

\* np.zeros(int(duration * self.sample_rate))
SilentNote(n) == IF n < 0 THEN Raised ELSE Vec(Zeros(n))

\* max_val = np.max(np.abs(audio)); if max_val > 0: audio = audio / max_val
NormalizeNoteBy(audio, max_val) ==
    IF RGt(max_val, Zero) THEN Vec(DivideBy(audio, max_val)) ELSE Vec(audio)

NormalizeNote(audio, num_samples) ==
    IF Len(audio) = 0 THEN Vec(Zeros(num_samples))
    ELSE NormalizeNoteBy(audio, Peak(audio))

\* audio = synth.get_samples(num_samples + extra_samples)[:num_samples]
RenderNote(selected, num_samples, extra_samples) ==
    [audio |-> NormalizeNote(
                   SubSeq(FluidSamples(selected.channel, num_samples + extra_samples),
                          1, num_samples),
                   num_samples),
     sfp |-> selected]

\* duration = max(0.1, duration)
NoteDuration(duration) == IF RLt(duration, Q(1, 10)) THEN Q(1, 10) ELSE duration

\* SoundFontPlayer.generate_note: [audio, sfp]
GenerateNote(sfp, sample_rate, duration) ==
    IF ~sfp.enabled \/ ~sfp.synth \/ sfp.soundfont_id = "None"
    THEN [audio |-> SilentNote(Trunc(RMul(duration, Q(sample_rate, 1)))), sfp |-> sfp]
    ELSE RenderNote(ProgramSelect(sfp),
                    Trunc(RMul(NoteDuration(duration), Q(sample_rate, 1))),
                    Trunc(RMul(Q(1, 2), Q(sample_rate, 1))))

AllZero(seq) == \A j \in 1..Len(seq) : seq[j] = Zero

\* ------------------------------------------------------------------------
\* EnhancedAudioPlayer._generate_soundfont_audio: [audio, sfp, adsr].
\* The attempt to render with the SoundFont is [fallback, audio, sfp, adsr];
\* fallback = TRUE is any of the returns, and the except clause, that hand
\* over to _generate_audio_synthesis.
\* ------------------------------------------------------------------------
AttemptFallback(sfp, adsr) ==
    [fallback |-> TRUE, audio |-> NoArray, sfp |-> sfp, adsr |-> adsr]

\* audio = self._apply_adsr(audio, config); return audio
ShapeNote(note, shaped, call) ==
    IF ~shaped.ok THEN AttemptFallback(note.sfp, <<call>>)
    ELSE [fallback |-> FALSE, audio |-> shaped, sfp |-> note.sfp, adsr |-> <<call>>]

\* if audio is None or len(audio) == 0 or np.all(audio == 0): fall back
AfterNote(note, sample_rate, config) ==
    IF ~note.audio.ok \/ Len(note.audio.data) = 0 \/ AllZero(note.audio.data)
    THEN AttemptFallback(note.sfp, <<>>)
    ELSE ShapeNote(note, ApplyAdsr(sample_rate, note.audio.data, config),
                   AdsrCall(sample_rate, note.audio.data, config))

\* if not success: fall back; otherwise generate_note
AfterLoad(load, sample_rate, config) ==
    IF ~load.ret THEN AttemptFallback(load.sfp, <<>>)
    ELSE AfterNote(GenerateNote(load.sfp, sample_rate, config.duration),
                   sample_rate, config)

\* if soundfont_path != self.soundfont_player.current_soundfont_path: load
EnsureLoaded(sfp, soundfont_path) ==
    IF soundfont_path # sfp.current_soundfont_path
    THEN LoadSoundfont(sfp, soundfont_path)
    ELSE [ret |-> TRUE, sfp |-> sfp]

SoundfontAttempt(sfp, sample_rate, config) ==
    IF ~sfp.enabled \/ config.soundfont.soundfont_path = ""
    THEN AttemptFallback(sfp, <<>>)
    ELSE AfterLoad(EnsureLoaded(sfp, config.soundfont.soundfont_path),
                   sample_rate, config)

\* return self._generate_audio_synthesis(config)
FallBackToSynthesis(attempt, synthesis) ==
    [audio |-> synthesis.audio, sfp |-> attempt.sfp,
     adsr |-> attempt.adsr \o synthesis.adsr]

FinishSoundfont(attempt, sample_rate, config) ==
    IF attempt.fallback
    THEN FallBackToSynthesis(attempt, GenerateAudioSynthesis(sample_rate, config))
    ELSE [audio |-> attempt.audio, sfp |-> attempt.sfp, adsr |-> attempt.adsr]

GenerateSoundfontAudio(sfp, sample_rate, config) ==
    FinishSoundfont(SoundfontAttempt(sfp, sample_rate, config), sample_rate, config)

\* ------------------------------------------------------------------------
\* EnhancedAudioPlayer._generate_audio: [audio, sfp, adsr]
\* ------------------------------------------------------------------------
\* the synthesis tail, which leaves the SoundFont player alone
SynthesisMode(sfp, synthesis) ==
    [audio |-> synthesis.audio, sfp |-> sfp, adsr |-> synthesis.adsr]

GenerateAudio(sfp, sample_rate, config) ==
    IF config.play_type = "recorded_sequence"
       /\ ReadAudioFile(config.recorded_audio_file).ok
    THEN [audio |-> ReadAudioFile(config.recorded_audio_file), sfp |-> sfp,
          adsr |-> <<>>]
    ELSE IF config.soundfont.enabled
            /\ config.soundfont.soundfont_path # ""
            /\ config.soundfont.soundfont_path # "No SoundFont loaded"
    THEN GenerateSoundfontAudio(sfp, sample_rate, config)
    ELSE SynthesisMode(sfp, GenerateAudioSynthesis(sample_rate, config))

\* ------------------------------------------------------------------------
\* AudioEffectsProcessor.apply_effects.  enabled is the processor's flag
\* (PEDALBOARD_AVAILABLE); board is what the pedalboard chain does with a
\* buffer: "gain" returns it at twice the amplitude, "raise" raises.
\* ------------------------------------------------------------------------
Board(board, samples) == Scale(samples, Q(2, 1))

ApplyEffects(enabled, board, audio, effects_config) ==
    IF ~enabled \/ ~effects_config.enabled THEN audio
    ELSE IF board = "raise" THEN Col(audio.data)
    ELSE Vec(Board(board, audio.data))

\* ------------------------------------------------------------------------
\* The mixing stage of play_mixed_sounds / export_mixed_to_wav
\* ------------------------------------------------------------------------
RECURSIVE MaxDuration(_, _)
MaxDuration(all_audio, k) ==
    IF k = 0 THEN 0 ELSE Max(MaxDuration(all_audio, k - 1), ArrLen(all_audio[k]))

\* np.concatenate([audio, np.zeros(max_duration - len(audio))]): a column
\* array cannot be concatenated with the one-dimensional padding
PadOne(audio, max_duration) ==
    IF ArrLen(audio) < max_duration
    THEN IF audio.ndim = 1
         THEN Vec(audio.data \o Zeros(max_duration - ArrLen(audio)))
         ELSE Raised
    ELSE audio

PadAll(all_audio) ==
    [k \in 1..Len(all_audio) |-> PadOne(all_audio[k], MaxDuration(all_audio, Len(all_audio)))]

\* np.vstack: a vector is one row, a column array is one row per sample
Rows(a) == IF a.ndim = 1 THEN <<a.data>> ELSE [i \in 1..Len(a.data) |-> <<a.data[i]>>]
NumCols(a) == IF a.ndim = 1 THEN Len(a.data) ELSE 1

RECURSIVE Vstack(_, _)
Vstack(arrays, k) == IF k = 0 THEN <<>> ELSE Vstack(arrays, k - 1) \o Rows(arrays[k])

RECURSIVE ColumnSum(_, _, _)
ColumnSum(rows, j, i) ==
    IF i = 0 THEN Zero ELSE RAdd(ColumnSum(rows, j, i - 1), rows[i][j])

\* np.mean(stacked, axis=0) of a matrix with num_cols columns: the mean of
\* an empty column is NaN
MeanAxis0(rows, num_cols) ==
    [j \in 1..num_cols |->
        IF Len(rows) = 0 THEN NaN
        ELSE RDiv(ColumnSum(rows, j, Len(rows)), Q(Len(rows), 1))]

\* mutation: a single layer is stacked and averaged like any other list
MixAverageWithoutBypass(padded_audio) ==
    IF Len(padded_audio) = 0 THEN Raised
    ELSE IF \E k \in 1..Len(padded_audio) :
               NumCols(padded_audio[k]) # NumCols(padded_audio[1])
         THEN Raised
         ELSE Vec(MeanAxis0(Vstack(padded_audio, Len(padded_audio)),
                            NumCols(padded_audio[1])))

\* "Mix by averaging": padded_audio -> mixed
MixAverage(padded_audio) ==
    IF Len(padded_audio) = 1 THEN padded_audio[1]
    ELSE IF Len(padded_audio) = 0 THEN Raised          \* np.vstack of nothing
    ELSE IF \E k \in 1..Len(padded_audio) :
               NumCols(padded_audio[k]) # NumCols(padded_audio[1])
         THEN Raised                                   \* np.vstack
         ELSE Vec(MeanAxis0(Vstack(padded_audio, Len(padded_audio)),
                            NumCols(padded_audio[1])))

\* "Normalize to prevent distortion": leave headroom above 0.8
HeadroomLimit == Q(4, 5)

\* mutation: a loud mix is normalised to full scale, leaving no headroom
LeaveHeadroomToFullScale(mixed, max_val) ==
    IF RGt(max_val, HeadroomLimit)
    THEN [mixed EXCEPT !.data = Scale(mixed.data, RDiv(One, max_val))]
    ELSE mixed

\* if max_val > 0.8: mixed = mixed * (0.8 / max_val)
LeaveHeadroom(mixed, max_val) ==
    IF RGt(max_val, HeadroomLimit)
    THEN [mixed EXCEPT !.data = Scale(mixed.data, RDiv(HeadroomLimit, max_val))]
    ELSE mixed

Normalize(mixed) ==
    IF Len(mixed.data) = 0 THEN Raised                 \* np.max, zero-size array
    ELSE LeaveHeadroom(mixed, Peak(mixed.data))

\* ------------------------------------------------------------------------
\* The render loops.  A handler's outcome is the record
\*   [result, all_audio, mixed, out, sink, sfp, trace, adsr]
\* result: what the call returned ("None", "True", "False") or "raised";
\* all_audio, mixed: the handler's locals of those names (mixed as it is
\* before the headroom scaling); out: the buffer handed to sd.play
\* (sink = "device") or to the 16-bit encoder and wavfile.write
\* (sink = "file"); trace: the per-layer steps, in order; adsr: the phase
\* lengths computed by each _apply_adsr call.
\* ------------------------------------------------------------------------
Step(call, layer) == [call |-> call, layer |-> layer]

\* mutation: the empty list is not checked for
NoLayersUnchecked(configs) == FALSE

\* if not configs: return
NoLayers(configs) == Len(configs) = 0

RenderStart(sfp) ==
    [ok |-> TRUE, all_audio |-> <<>>, sfp |-> sfp, trace |-> <<>>, adsr |-> <<>>]

\* _generate_audio raised inside the loop
RenderRaised(prev, gen, k) ==
    [ok |-> FALSE, all_audio |-> prev.all_audio, sfp |-> gen.sfp,
     trace |-> Append(prev.trace, Step("_generate_audio", k)),
     adsr |-> prev.adsr \o gen.adsr]

\* audio = audio * config.volume; audio = apply_effects(audio, config.effects);
\* all_audio.append(audio)
MixedLayer(prev, gen, config, k, effects_enabled, board) ==
    IF ~gen.audio.ok THEN RenderRaised(prev, gen, k)
    ELSE [ok |-> TRUE,
          all_audio |-> Append(prev.all_audio,
                               ApplyEffects(effects_enabled, board,
                                            ScaleArr(gen.audio, config.volume),
                                            config.effects)),
          sfp |-> gen.sfp, adsr |-> prev.adsr \o gen.adsr,
          trace |-> prev.trace \o <<Step("_generate_audio", k), Step("volume", k),
                                    Step("apply_effects", k)>>]

NextMixedLayer(prev, config, k, effects_enabled, board) ==
    IF ~prev.ok THEN prev
    ELSE MixedLayer(prev, GenerateAudio(prev.sfp, SampleRate, config), config, k,
                    effects_enabled, board)

\* the loop of play_mixed_sounds / export_mixed_to_wav over configs[1..k]
RECURSIVE RenderMixedLayers(_, _, _, _, _)
RenderMixedLayers(sfp, effects_enabled, board, configs, k) ==
    IF k = 0 THEN RenderStart(sfp)
    ELSE NextMixedLayer(RenderMixedLayers(sfp, effects_enabled, board, configs, k - 1),
                        configs[k], k, effects_enabled, board)

\* audio = audio * config.volume; audio = np.clip(audio, -1.0, 1.0);
\* all_audio.append(audio)
SequentialLayer(prev, gen, config, k) ==
    IF ~gen.audio.ok THEN RenderRaised(prev, gen, k)
    ELSE [ok |-> TRUE,
          all_audio |-> Append(prev.all_audio,
                               ClipArr(ScaleArr(gen.audio, config.volume))),
          sfp |-> gen.sfp, adsr |-> prev.adsr \o gen.adsr,
          trace |-> prev.trace \o <<Step("_generate_audio", k), Step("volume", k),
                                    Step("clip", k)>>]

NextSequentialLayer(prev, config, k) ==
    IF ~prev.ok THEN prev
    ELSE SequentialLayer(prev, GenerateAudio(prev.sfp, SampleRate, config), config, k)

\* the loop of export_sequential_to_wav over configs[1..k]
RECURSIVE RenderSequentialLayers(_, _, _)
RenderSequentialLayers(sfp, configs, k) ==
    IF k = 0 THEN RenderStart(sfp)
    ELSE NextSequentialLayer(RenderSequentialLayers(sfp, configs, k - 1), configs[k], k)

\* the samples of all_audio[1..k], one buffer after the other
RECURSIVE Concatenate(_, _)
Concatenate(all_audio, k) ==
    IF k = 0 THEN <<>> ELSE Concatenate(all_audio, k - 1) \o all_audio[k].data

\* mutation: each buffer is put in front of the ones before it
ConcatenateAllNewestFirst(all_audio) ==
    IF Len(all_audio) = 0 THEN Raised
    ELSE Vec(Concatenate([k \in 1..Len(all_audio) |-> all_audio[Len(all_audio) + 1 - k]],
                         Len(all_audio)))

\* np.concatenate(all_audio)
ConcatenateAll(all_audio) ==
    IF Len(all_audio) = 0 THEN Raised
    ELSE Vec(Concatenate(all_audio, Len(all_audio)))

Outcome(result, all_audio, mixed, out, sink, sfp, trace, adsr) ==
    [result |-> result, all_audio |-> all_audio, mixed |-> mixed, out |-> out,
     sink |-> sink, sfp |-> sfp, trace |-> trace, adsr |-> adsr]

\* an exception after the loop: nothing is played or written
RaisedAfter(r, mixed) ==
    Outcome("raised", r.all_audio, mixed, NoArray, "none", r.sfp, r.trace, r.adsr)

\* mixed = np.clip(mixed, -1.0, 1.0); play or encode and write
MixedNormalized(r, mixed, normal, sink, done_result) ==
    IF ~normal.ok THEN RaisedAfter(r, mixed)
    ELSE Outcome(done_result, r.all_audio, mixed, ClipArr(normal), sink,
                 r.sfp, r.trace, r.adsr)

MixedAveraged(r, mixed, sink, done_result) ==
    IF ~mixed.ok THEN RaisedAfter(r, NoArray)
    ELSE MixedNormalized(r, mixed, Normalize(mixed), sink, done_result)

MixedPadded(r, padded_audio, sink, done_result) ==
    IF \E k \in 1..Len(padded_audio) : ~padded_audio[k].ok
    THEN RaisedAfter(r, NoArray)
    ELSE MixedAveraged(r, MixAverage(padded_audio), sink, done_result)

MixedRendered(r, sink, done_result) ==
    IF ~r.ok THEN RaisedAfter(r, NoArray)
    ELSE MixedPadded(r, PadAll(r.all_audio), sink, done_result)

\* the body shared by play_mixed_sounds and export_mixed_to_wav
MixedOutcome(sfp, effects_enabled, board, configs, sink, empty_result, done_result) ==
    IF NoLayers(configs)
    THEN Outcome(empty_result, <<>>, NoArray, NoArray, "none", sfp, <<>>, <<>>)
    ELSE MixedRendered(
             RenderMixedLayers(sfp, effects_enabled, board, configs, Len(configs)),
             sink, done_result)

\* EnhancedAudioPlayer.play_mixed_sounds
PlayMixedSoundsOutcome(sfp, effects_enabled, board, configs) ==
    MixedOutcome(sfp, effects_enabled, board, configs, "device", "None", "None")

\* EnhancedAudioPlayer.export_mixed_to_wav
ExportMixedToWavOutcome(sfp, effects_enabled, board, configs) ==
    MixedOutcome(sfp, effects_enabled, board, configs, "file", "False", "True")

SequentialConcatenated(r, sequential) ==
    IF ~sequential.ok THEN RaisedAfter(r, NoArray)
    ELSE Outcome("True", r.all_audio, NoArray, sequential, "file",
                 r.sfp, r.trace, r.adsr)

SequentialRendered(r) ==
    IF ~r.ok THEN RaisedAfter(r, NoArray)
    ELSE SequentialConcatenated(r, ConcatenateAll(r.all_audio))

\* EnhancedAudioPlayer.export_sequential_to_wav
ExportSequentialToWavOutcome(sfp, configs) ==
    IF NoLayers(configs)
    THEN Outcome("False", <<>>, NoArray, NoArray, "none", sfp, <<>>, <<>>)
    ELSE SequentialRendered(RenderSequentialLayers(sfp, configs, Len(configs)))

\* _generate_audio raised in a single-sound handler
SingleRaised(gen) ==
    Outcome("raised", <<>>, NoArray, NoArray, "none", gen.sfp,
            <<Step("_generate_audio", 1)>>, gen.adsr)

\* samples * config.volume, apply_effects, np.clip, then play or write
SingleFinished(gen, samples, sink, done_result) ==
    Outcome(done_result, <<samples>>, NoArray, ClipArr(samples), sink, gen.sfp,
            <<Step("_generate_audio", 1), Step("volume", 1), Step("apply_effects", 1)>>,
            gen.adsr)

SingleSamples(gen, config, effects_enabled, board) ==
    ApplyEffects(effects_enabled, board, ScaleArr(gen.audio, config.volume),
                 config.effects)

\* samples.min() raises on a zero-size array
PlaySoundRendered(gen, config, effects_enabled, board) ==
    IF ~gen.audio.ok \/ ArrLen(gen.audio) = 0 THEN SingleRaised(gen)
    ELSE SingleFinished(gen, SingleSamples(gen, config, effects_enabled, board),
                        "device", "None")

\* EnhancedAudioPlayer.play_sound
PlaySoundOutcome(sfp, effects_enabled, board, config) ==
    PlaySoundRendered(GenerateAudio(sfp, SampleRate, config), config,
                      effects_enabled, board)

ExportToWavRendered(gen, config, effects_enabled, board) ==
    IF ~gen.audio.ok THEN SingleRaised(gen)
    ELSE SingleFinished(gen, SingleSamples(gen, config, effects_enabled, board),
                        "file", "True")

\* EnhancedAudioPlayer.export_to_wav
ExportToWavOutcome(sfp, effects_enabled, board, config) ==
    ExportToWavRendered(GenerateAudio(sfp, SampleRate, config), config,
                        effects_enabled, board)

\* ------------------------------------------------------------------------
\* Layer configurations (PlayAudioConfig) the model renders
\* ------------------------------------------------------------------------
\* a time of k samples, in seconds
Samples(k) == Q(k, SampleRate)

\* PlayAudioConfig with its defaults, at the model's time scale
DefaultConfig ==
    [frequency |-> Q(SampleRate, 4), wave_type |-> "sine",
     duration |-> Samples(3), volume |-> Q(3, 10),
     attack |-> Samples(1), decay |-> Samples(1), sustain |-> Q(7, 10),
     release |-> Samples(1),
     harmonics |-> [enabled |-> TRUE, octave_volume |-> Q(3, 10),
                    fifth_volume |-> Q(1, 5), sub_bass_volume |-> Zero],
     blending |-> [enabled |-> TRUE, blend_ratio |-> Q(1, 2)],
     advanced |-> [enabled |-> FALSE, synthesis_type |-> "fm",
                   lfo_enabled |-> FALSE, echo_enabled |-> FALSE],
     effects |-> [enabled |-> FALSE],
     soundfont |-> [enabled |-> FALSE, soundfont_path |-> ""],
     play_type |-> "custom", recorded_audio_file |-> "None"]

\* no envelope shaping, no harmonics, no blending
PlainConfig ==
    [DefaultConfig EXCEPT !.attack = Zero, !.decay = Zero, !.sustain = One,
                          !.release = Zero, !.volume = One,
                          !.harmonics.enabled = FALSE,
                          !.blending.enabled = FALSE]

RecordingA ==
    [PlainConfig EXCEPT !.play_type = "recorded_sequence",
                        !.recorded_audio_file = "rec_a.wav"]

RecordingBWithEffects ==
    [PlainConfig EXCEPT !.play_type = "recorded_sequence",
                        !.recorded_audio_file = "rec_b.wav",
                        !.effects.enabled = TRUE]

SawtoothLayer ==
    [DefaultConfig EXCEPT !.wave_type = "sawtooth", !.volume = Q(1, 2)]

LoudSquareLayer ==
    [PlainConfig EXCEPT !.wave_type = "square", !.duration = Samples(2),
                        !.volume = Q(2, 1)]

EmptyLayerWithEffects ==
    [PlainConfig EXCEPT !.duration = Zero, !.effects.enabled = TRUE]

PianoLayer ==
    [PlainConfig EXCEPT !.duration = Samples(1), !.wave_type = "triangle",
                        !.soundfont = [enabled |-> TRUE,
                                       soundfont_path |-> "/sf/piano.sf2"]]

MissingFontLayer ==
    [PlainConfig EXCEPT !.duration = Samples(2), !.wave_type = "triangle",
                        !.soundfont = [enabled |-> TRUE,
                                       soundfont_path |-> "/sf/missing.sf2"]]

\* blending alone: no harmonics, a flat envelope, full volume; a square and
\* a sawtooth layer
BlendedConfigs ==
    {[PlainConfig EXCEPT !.wave_type = "square",
                         !.blending = [enabled |-> TRUE, blend_ratio |-> Q(1, 2)]],
     [PlainConfig EXCEPT !.wave_type = "sawtooth",
                         !.blending = [enabled |-> TRUE, blend_ratio |-> Q(1, 4)]]}

\* harmonics alone: no blending, a flat envelope, full volume; partial
\* volumes from none to as loud as the fundamental
HarmonicConfigs ==
    {[PlainConfig EXCEPT !.wave_type = w,
                         !.harmonics = [enabled |-> TRUE, octave_volume |-> o,
                                        fifth_volume |-> f, sub_bass_volume |-> b]] :
        w \in {"sine", "square", "sawtooth"}, o \in {Zero, Q(3, 10), One},
        f \in {Zero, Q(1, 5)}, b \in {Zero, Q(1, 2)}}

\* the bare waveform: every wave type, one that is not recognised included,
\* at frequencies that do and do not divide the sample rate
WaveformConfigs ==
    {[PlainConfig EXCEPT !.wave_type = w, !.frequency = f] :
        w \in {"sine", "square", "sawtooth", "triangle", "organ"},
        f \in {Q(SampleRate, 4), Q(SampleRate, 3), Q(7, 1)}}

\* the advanced settings switched on, for every synthesis_type, with and
\* without LFO and echo
AdvancedConfigs ==
    {[c EXCEPT !.advanced = [enabled |-> TRUE, synthesis_type |-> s,
                             lfo_enabled |-> l, echo_enabled |-> e]] :
        c \in {PlainConfig, SawtoothLayer}, s \in {"none", "fm", "noise", "karplus"},
        l \in BOOLEAN, e \in BOOLEAN}

\* a duration and envelope times that are not a whole number of samples
FractionalConfigs ==
    {[PlainConfig EXCEPT !.duration = Q(7, 4 * SampleRate), !.attack = a] :
        a \in {Zero, Q(3, 5 * SampleRate)}}

\* parameters outside their domain: a duration below zero, a frequency of
\* zero, a frequency below zero
OutOfDomainConfigs ==
    {[PlainConfig EXCEPT !.duration = Samples(-1)],
     [SawtoothLayer EXCEPT !.frequency = Zero],
     [SawtoothLayer EXCEPT !.frequency = Q(-SampleRate, 8)]}

\* SoundFont selected but no file chosen (the placeholder text, no path),
\* and SoundFont layers whose duration is below zero, with a font that
\* loads and with one that does not
SoundfontConfigs ==
    {[SawtoothLayer EXCEPT !.soundfont = [enabled |-> TRUE,
                                          soundfont_path |-> "No SoundFont loaded"]],
     [SawtoothLayer EXCEPT !.soundfont = [enabled |-> TRUE, soundfont_path |-> ""]],
     [PianoLayer EXCEPT !.duration = Samples(-1)],
     [MissingFontLayer EXCEPT !.duration = Samples(-1)]}

LayerConfigs ==
    {RecordingA, RecordingBWithEffects, SawtoothLayer, LoudSquareLayer,
     EmptyLayerWithEffects, PianoLayer, MissingFontLayer}

\* envelope times: none, negative, a fraction of a sample, and times around
\* and beyond the longest buffer
EnvelopeTimes == {Samples(-1), Zero, Q(3, 2 * SampleRate), Samples(2), Samples(5)}

EnvelopeConfigs ==
    {[DefaultConfig EXCEPT !.wave_type = w, !.duration = Samples(n),
                           !.attack = a, !.decay = d, !.release = r,
                           !.harmonics.enabled = (n > 0)] :
        w \in {"sine", "square"}, n \in {0, 1, 4},
        a \in EnvelopeTimes, d \in EnvelopeTimes, r \in EnvelopeTimes}

SingleConfigs ==
    LayerConfigs \cup EnvelopeConfigs \cup SoundfontConfigs \cup OutOfDomainConfigs
        \cup BlendedConfigs \cup HarmonicConfigs \cup WaveformConfigs
        \cup FractionalConfigs \cup AdvancedConfigs

RECURSIVE ListsUpTo(_)
ListsUpTo(n) ==
    IF n = 0 THEN {<<>>}
    ELSE LET shorter == ListsUpTo(n - 1)
         IN  shorter \cup {Append(l, c) : l \in shorter, c \in LayerConfigs}

LayerLists == ListsUpTo(MaxLayers)

\* what the installation provides: the pedalboard and FluidSynth libraries,
\* and whether the pedalboard chain processes a buffer or raises
Environments ==
    {[pedalboard |-> TRUE,  fluidsynth |-> TRUE,  board |-> "gain"],
     [pedalboard |-> TRUE,  fluidsynth |-> TRUE,  board |-> "raise"],
     [pedalboard |-> FALSE, fluidsynth |-> FALSE, board |-> "gain"]}

\* ------------------------------------------------------------------------
\* State
\* ------------------------------------------------------------------------
VARIABLES
    effects_enabled,   \* effects_processor.enabled
    board,             \* behaviour of the pedalboard chain (environment)
    soundfont_player,  \* the SoundFontPlayer's state
    player_before,     \* the SoundFontPlayer's state when the last call began
    pc,                \* "ready": no call in progress; "returned": after a call
    op,                \* the handler last called
    configs,           \* its argument, as a list of configs
    result,            \* what it returned, or "raised"
    all_audio,         \* per-layer buffers it rendered
    mixed,             \* the mix before headroom scaling (simultaneous only)
    out,               \* the buffer handed to the device or the encoder
    sink,              \* "device", "file" or "none"
    trace,             \* the per-layer steps it performed
    adsr,              \* phase lengths computed by its _apply_adsr calls
    probe,             \* the last direct call of a function, with what it returned
    studio,            \* the editor window: document, selection, clipboard
    recorder           \* the keyboard recorder dialog

vars == <<effects_enabled, board, soundfont_player, player_before, pc, op, configs, result,
          all_audio, mixed, out, sink, trace, adsr, probe, studio, recorder>>

\* no function has been called directly
NoProbe == [call |-> "none"]

\* The preset library is built once, when the presets menu is set up, and
\* every menu action keeps its preset's data: dicts is the store of nested
\* 'advanced' dictionaries by object identity, holding fm_mod_ratio in
\* tenths, and PresetAdvanced is the one inside the FM preset's layer.
PresetAdvanced == 0

\* KeyboardRecorderDialog.__init__
NewRecorder ==
    [is_recording |-> FALSE, recorded_notes |-> <<>>, recording_start_time |-> 0,
     pressed_keys |-> [k \in {} |-> 0], keyboard_focus_mode |-> TRUE,
     now |-> 0, held |-> {}, captured |-> {}, session |-> 0, event |-> [type |-> "none", key |-> "none"]]

\* SoundDesignStudioV2.__init__: an empty document, and layer_clipboard None
\* (the empty sequence; a copied layer is kept as a sequence of one)
NewStudio ==
    [document |-> <<>>, dicts |-> (PresetAdvanced :> 25), current_layer_index |-> 0,
     layer_clipboard |-> <<>>, status |-> "ok"]

\* EnhancedAudioPlayer.__init__
Init ==
    /\ \E e \in Environments :
          /\ effects_enabled = e.pedalboard
          /\ board = e.board
          /\ soundfont_player = NewSoundFontPlayer(e.fluidsynth)
          /\ player_before = NewSoundFontPlayer(e.fluidsynth)
    /\ pc = "ready"
    /\ op = "none"
    /\ configs = <<>>
    /\ result = "none"
    /\ all_audio = <<>>
    /\ mixed = NoArray
    /\ out = NoArray
    /\ sink = "none"
    /\ trace = <<>>
    /\ adsr = <<>>
    /\ probe = NoProbe
    /\ studio = NewStudio
    /\ recorder = NewRecorder

\* the state after a handler ran to its outcome o
Returned(name, cs, o) ==
    /\ pc' = "returned"
    /\ op' = name
    /\ configs' = cs
    /\ result' = o.result
    /\ all_audio' = o.all_audio
    /\ mixed' = o.mixed
    /\ out' = o.out
    /\ sink' = o.sink
    /\ trace' = o.trace
    /\ adsr' = o.adsr
    /\ soundfont_player' = o.sfp
    /\ player_before' = soundfont_player
    /\ UNCHANGED <<effects_enabled, board, probe, studio, recorder>>

PlaySound ==
    /\ pc = "ready"
    /\ \E config \in SingleConfigs :
          Returned("play_sound", <<config>>,
                   PlaySoundOutcome(soundfont_player, effects_enabled, board, config))

ExportToWav ==
    /\ pc = "ready"
    /\ \E config \in SingleConfigs :
          Returned("export_to_wav", <<config>>,
                   ExportToWavOutcome(soundfont_player, effects_enabled, board, config))

PlayMixedSounds ==
    /\ pc = "ready"
    /\ \E cs \in LayerLists :
          Returned("play_mixed_sounds", cs,
                   PlayMixedSoundsOutcome(soundfont_player, effects_enabled, board, cs))

ExportMixedToWav ==
    /\ pc = "ready"
    /\ \E cs \in LayerLists :
          Returned("export_mixed_to_wav", cs,
                   ExportMixedToWavOutcome(soundfont_player, effects_enabled, board, cs))

ExportSequentialToWav ==
    /\ pc = "ready"
    /\ \E cs \in LayerLists :
          Returned("export_sequential_to_wav", cs,
                   ExportSequentialToWavOutcome(soundfont_player, cs))

\* the caller goes on to its next call; the player keeps its state
NextCall ==
    /\ pc = "returned"
    /\ pc' = "ready"
    /\ op' = "none"
    /\ configs' = <<>>
    /\ result' = "none"
    /\ all_audio' = <<>>
    /\ mixed' = NoArray
    /\ out' = NoArray
    /\ sink' = "none"
    /\ trace' = <<>>
    /\ adsr' = <<>>
    /\ player_before' = soundfont_player
    /\ UNCHANGED <<effects_enabled, board, soundfont_player, probe, studio, recorder>>

Next ==
    \/ PlaySound
    \/ ExportToWav
    \/ PlayMixedSounds
    \/ ExportMixedToWav
    \/ ExportSequentialToWav
    \/ NextCall

Spec == Init /\ [][Next]_vars

\* ------------------------------------------------------------------------
\* Functions called directly, at the program's own sample rate.  A buffer of
\* SAMPLE_RATE samples a second is observed by its length and one sample.
\* ------------------------------------------------------------------------
\* EnhancedAudioPlayer.SAMPLE_RATE
SAMPLE_RATE == 44100

\* np.linspace(0, duration, num_samples, False)[i], i counted from 0
SampleTime(duration, num_samples, i) == RMul(Q(i, num_samples), duration)

\* np.linspace(start, stop, num)[k], k counted from 0
LinspaceAt(start, stop, num, k) ==
    IF num = 1 THEN start
    ELSE RAdd(start, RMul(Q(k, num - 1), RSub(stop, start)))

\* envelope[i] as _apply_adsr builds it from phase lengths that are not
\* negative: the attack ramp, the decay ramp, the sustain level, the release
EnvelopeAt(counts, sustain, i) ==
    IF i < counts.attack THEN LinspaceAt(Zero, One, counts.attack, i)
    ELSE IF i < counts.attack + counts.decay
    THEN LinspaceAt(One, sustain, counts.decay, i - counts.attack)
    ELSE IF i < counts.attack + counts.decay + counts.sustain THEN sustain
    ELSE LinspaceAt(IF counts.attack + counts.decay + counts.sustain > 0
                    THEN sustain ELSE One,
                    Zero, counts.release,
                    i - counts.attack - counts.decay - counts.sustain)

\* _generate_audio(config)[i] for a layer without harmonics and blending:
\* the waveform at the sample's time, times the envelope
WaveformAt(config, num_samples, i) ==
    WaveSample(RMul(config.frequency, SampleTime(config.duration, num_samples, i)),
               config.wave_type)

GenerateAudioAt(sample_rate, config, num_samples, i) ==
    RMul(WaveformAt(config, num_samples, i),
         EnvelopeAt(AdsrCounts(sample_rate, num_samples, config.attack, config.decay,
                               config.release),
                    config.sustain, i))

\* layers of a second or so at SAMPLE_RATE, and the samples looked at
ScenarioConfigs ==
    {[PlainConfig EXCEPT !.frequency = Q(f, 1), !.wave_type = w,
                         !.duration = d, !.attack = a] :
        f \in {1, 100, 220, 440, 441}, w \in {"sine", "square", "triangle"},
        d \in {Q(1, 2), One, Q(2, 1)}, a \in {Zero, Q(1, 100)}}

ProbeIndices == {0, 441, 2205, 11025}

\* len(audio) and audio[index] for audio = _generate_audio(config)
GenerateAudioProbe(config, num_samples, index) ==
    [call |-> "_generate_audio", config |-> config, length |-> num_samples,
     index |-> index,
     sample |-> GenerateAudioAt(SAMPLE_RATE, config, num_samples, index)]

GenerateAudioCall ==
    /\ probe = NoProbe
    /\ \E config \in ScenarioConfigs, index \in ProbeIndices :
          /\ index < NumSamples(SAMPLE_RATE, config.duration)
          /\ probe' = GenerateAudioProbe(config,
                                         NumSamples(SAMPLE_RATE, config.duration), index)
    /\ UNCHANGED <<effects_enabled, board, soundfont_player, player_before, pc, op,
                   configs, result, all_audio, mixed, out, sink, trace, adsr, studio,
                   recorder>>

\* ------------------------------------------------------------------------
\* SoundFontPlayer.frequency_to_midi / midi_to_frequency.  Powers of the
\* twelfth root of two are taken to four decimals.
\* ------------------------------------------------------------------------
\* 2 ** (r / 12) for r = 0..11
SemitoneRatio(r) ==
    Q(<<10000, 10595, 11225, 11892, 12599, 13348,
        14142, 14983, 15874, 16818, 17818, 18877>>[r + 1], 10000)

\* 2 ** ((r + 0.5) / 12) for r = 0..11: where 12 * log2 rounds up to r + 1
HalfStepRatio(r) ==
    Q(<<10293, 10905, 11554, 12241, 12968, 13740,
        14557, 15422, 16339, 17311, 18340, 19431>>[r + 1], 10000)

\* 2.0 ** e for a whole e
RECURSIVE Pow2(_)
Pow2(e) ==
    IF e = 0 THEN One
    ELSE IF e > 0 THEN RMul(Q(2, 1), Pow2(e - 1))
    ELSE RMul(Q(1, 2), Pow2(e + 1))

\* 440.0 * (2.0 ** ((midi_note - 69) / 12.0))
MidiToFrequency(midi_note) ==
    RMul(Q(440, 1),
         RMul(Pow2((midi_note - 69) \div 12), SemitoneRatio((midi_note - 69) % 12)))

\* floor(log2(x)) for x > 0
RECURSIVE Octave(_)
Octave(x) ==
    IF RLt(x, One) THEN Octave(RMul(x, Q(2, 1))) - 1
    ELSE IF RLe(Q(2, 1), x) THEN Octave(RDiv(x, Q(2, 1))) + 1
    ELSE 0

\* round(12 * log2(m)) for 1 <= m < 2
SemitonesIn(m) == Cardinality({r \in 0..11 : RLe(HalfStepRatio(r), m)})

\* round(12 * log2(x)) for x > 0, octave = floor(log2(x))
RoundedSemitones(x, octave) == 12 * octave + SemitonesIn(RDiv(x, Pow2(octave)))

\* mutation: int(midi_note) without round
FrequencyToMidiTruncated(frequency) ==
    IF RLe(frequency, Zero) THEN [ok |-> FALSE, midi_note |-> 0]
    ELSE [ok |-> TRUE,
          midi_note |->
              69 + 12 * Octave(RDiv(frequency, Q(440, 1)))
                 + Cardinality({r \in 1..11 :
                       RLe(SemitoneRatio(r),
                           RDiv(RDiv(frequency, Q(440, 1)),
                                Pow2(Octave(RDiv(frequency, Q(440, 1))))))})]

\* int(round(69 + 12 * math.log2(frequency / 440.0))); math.log2 raises for
\* a frequency that is not positive
FrequencyToMidi(frequency) ==
    IF RLe(frequency, Zero) THEN [ok |-> FALSE, midi_note |-> 0]
    ELSE [ok |-> TRUE,
          midi_note |-> 69 + RoundedSemitones(RDiv(frequency, Q(440, 1)),
                                              Octave(RDiv(frequency, Q(440, 1))))]

MidiNotes == 0..127

\* frequencies on a note, between notes, beyond the MIDI range, and not
\* positive
Frequencies ==
    {Q(440, 1), Q(220, 1), Q(880, 1), Q(26163, 100), Q(450, 1), Q(453, 1),
     Q(55, 2), One, Q(20000, 1), Zero, Q(-440, 1)}

FrequencyToMidiProbe(frequency, from_note, converted) ==
    [call |-> "frequency_to_midi", frequency |-> frequency, from_note |-> from_note,
     ok |-> converted.ok, midi_note |-> converted.midi_note]

\* frequency_to_midi(f), for a given f or for the frequency that
\* midi_to_frequency has just returned
FrequencyToMidiCall ==
    /\ \/ /\ probe = NoProbe
          /\ \E frequency \in Frequencies :
                   probe' = FrequencyToMidiProbe(frequency, -1, FrequencyToMidi(frequency))
       \/ /\ probe.call = "midi_to_frequency"
          /\ probe' = FrequencyToMidiProbe(probe.frequency, probe.midi_note,
                                           FrequencyToMidi(probe.frequency))
    /\ UNCHANGED <<effects_enabled, board, soundfont_player, player_before, pc, op,
                   configs, result, all_audio, mixed, out, sink, trace, adsr, studio,
                   recorder>>

\* midi_to_frequency(n)
MidiToFrequencyCall ==
    /\ probe = NoProbe
    /\ \E midi_note \in MidiNotes :
          probe' = [call |-> "midi_to_frequency", midi_note |-> midi_note,
                    frequency |-> MidiToFrequency(midi_note)]
    /\ UNCHANGED <<effects_enabled, board, soundfont_player, player_before, pc, op,
                   configs, result, all_audio, mixed, out, sink, trace, adsr, studio,
                   recorder>>

\* ------------------------------------------------------------------------
\* AdvancedSynthesis (advanced_synthesis.py)
\* ------------------------------------------------------------------------
RECURSIVE EchoTapsDescending(_, _, _, _)
EchoTapsDescending(output, i, delay_samples, feedback) ==
    IF i > Len(output) THEN output
    ELSE [EchoTapsDescending(output, i + 1, delay_samples, feedback)
             EXCEPT ![i] = RAdd(output[i], RMul(output[i - delay_samples], feedback))]

\* for i in range(delay_samples, len(audio)):
\*     output[i] += output[i - delay_samples] * feedback
\* (indices here are one more than numpy's)
RECURSIVE EchoTaps(_, _, _, _)
EchoTaps(output, i, delay_samples, feedback) ==
    IF i > Len(output) THEN output
    ELSE EchoTaps([output EXCEPT ![i] = RAdd(@, RMul(output[i - delay_samples], feedback))],
                  i + 1, delay_samples, feedback)

\* max_val = np.max(np.abs(output)), which raises for a zero-size array;
\* if max_val > 1.0: output = output / max_val.  audio is the caller's
\* buffer, output the copy the function works on.
EchoNormalize(audio, output, delay_samples) ==
    IF Len(output) = 0
    THEN [raised |-> "ValueError", audio |-> audio, output |-> <<>>,
          delay_samples |-> delay_samples, max_val |-> Zero]
    ELSE [raised |-> "None", audio |-> audio,
          output |-> IF RGt(Peak(output), One) THEN DivideBy(output, Peak(output))
                     ELSE output,
          delay_samples |-> delay_samples, max_val |-> Peak(output)]

\* delay_samples = int(delay_time * sample_rate); output = np.copy(audio)
EchoWithDelay(audio, delay_samples, feedback) ==
    EchoNormalize(audio, EchoTaps(audio, delay_samples + 1, delay_samples, feedback),
                  delay_samples)

ApplySimpleEcho(audio, delay_time, feedback, sample_rate) ==
    EchoWithDelay(audio, Trunc(RMul(delay_time, Q(sample_rate, 1))), feedback)

EchoLevels == {Zero, One, Q(1, 2), Q(-1, 1)}

EchoBuffers == UNION {[1..n -> EchoLevels] : n \in 0..MaxEchoLen}

\* delays of whole samples, of a fraction of a sample, and longer than the
\* buffer
EchoDelays == {Samples(k) : k \in {0, 1, 2, MaxEchoLen + 1}} \cup {Q(3, 2 * SampleRate)}

EchoFeedbacks == {Q(1, 2), Q(9, 10)}

\* apply_simple_echo(audio, delay_time, feedback, sample_rate)
ApplySimpleEchoCall ==
    /\ probe = NoProbe
    /\ \E audio \in EchoBuffers, delay_time \in EchoDelays, feedback \in EchoFeedbacks :
          probe' = [call |-> "apply_simple_echo", input |-> audio,
                    feedback |-> feedback,
                    echo |-> ApplySimpleEcho(audio, delay_time, feedback, SampleRate)]
    /\ UNCHANGED <<effects_enabled, board, soundfont_player, player_before, pc, op,
                   configs, result, all_audio, mixed, out, sink, trace, adsr, studio,
                   recorder>>

\* for i in range(num_samples): output[i] = delay_line[0];
\* average = (delay_line[0] + delay_line[1]) * 0.5 * 0.996;
\* delay_line = np.roll(delay_line, -1); delay_line[-1] = average.
\* Indexing a delay line of fewer than two samples raises IndexError.
RECURSIVE KarplusLoop(_, _, _, _)
KarplusLoop(output, delay_line, i, num_samples) ==
    IF i > num_samples THEN [raised |-> "None", output |-> output]
    ELSE IF Len(delay_line) < 2 THEN [raised |-> "IndexError", output |-> <<>>]
    ELSE KarplusLoop(Append(output, delay_line[1]),
                     Append(Tail(delay_line),
                            RMul(RMul(RAdd(delay_line[1], delay_line[2]), Q(1, 2)),
                                 Q(996, 1000))),
                     i + 1, num_samples)

\* num_samples = int(sample_rate * duration);
\* delay_length = int(sample_rate / frequency)
KarplusSamples(duration, sample_rate) == Trunc(RMul(Q(sample_rate, 1), duration))

DelayLength(frequency, sample_rate) == Trunc(RDiv(Q(sample_rate, 1), frequency))

\* delay_line is the noise burst np.random.uniform(-1.0, 1.0, delay_length)
KarplusStrong(delay_line, duration, sample_rate) ==
    KarplusLoop(<<>>, delay_line, 1, KarplusSamples(duration, sample_rate))

\* fundamentals below half the sample rate (delay lines of 4 and 3 samples)
\* and above it (delay lines of 1 and 0 samples)
KarplusFrequencies == {Q(5, 1), Q(6, 1), Q(15, 1), Q(25, 1)}

\* no sample, less than a period, a period, two periods of the shorter line
KarplusDurations == {Samples(k) : k \in {0, 1, 3, 6}}

NoiseLevels == {One, Zero, Q(-1, 1)}

\* karplus_strong(frequency, duration, sample_rate)
KarplusStrongCall ==
    /\ probe = NoProbe
    /\ \E frequency \in KarplusFrequencies, duration \in KarplusDurations :
          \E delay_line \in [1..DelayLength(frequency, SampleRate) -> NoiseLevels] :
             probe' = [call |-> "karplus_strong", frequency |-> frequency,
                       num_samples |-> KarplusSamples(duration, SampleRate),
                       noise |-> delay_line,
                       karplus |-> KarplusStrong(delay_line, duration, SampleRate)]
    /\ UNCHANGED <<effects_enabled, board, soundfont_player, player_before, pc, op,
                   configs, result, all_audio, mixed, out, sink, trace, adsr, studio,
                   recorder>>

\* ------------------------------------------------------------------------
\* SoundDesignStudio._play_advanced_sound (sound_design_studio_old.py)
\* ------------------------------------------------------------------------
\* The local variable audio is unbound until a branch assigns it; calls is
\* the sequence of AdvancedSynthesis functions that have produced or
\* transformed it.
\* if noise_type == 'white' ... elif 'pink' ... else brown; then, with the
\* filter enabled, if filter_type == 'bandpass' ... elif 'highpass' ... else
\* lowpass
NoiseSound(adv) ==
    <<IF adv.noise_type = "white" THEN "generate_white_noise"
      ELSE IF adv.noise_type = "pink" THEN "generate_pink_noise"
      ELSE "generate_brown_noise">>
    \o (IF ~adv.noise_filter_enabled THEN <<>>
        ELSE IF adv.noise_filter_type = "bandpass" THEN <<"apply_bandpass_filter">>
        ELSE IF adv.noise_filter_type = "highpass" THEN <<"apply_highpass_filter">>
        ELSE <<"apply_lowpass_filter">>)

\* if synth_type == 'fm' ... elif 'noise' ... elif 'karplus': there is no
\* else branch, any other value leaves audio unbound
BaseSound(adv) ==
    IF adv.synthesis_type = "fm"
    THEN [bound |-> TRUE, raised |-> "None", calls |-> <<"generate_fm_synthesis">>]
    ELSE IF adv.synthesis_type = "noise"
    THEN [bound |-> TRUE, raised |-> "None", calls |-> NoiseSound(adv)]
    ELSE IF adv.synthesis_type = "karplus"
    THEN [bound |-> TRUE, raised |-> "None", calls |-> <<"karplus_strong">>]
    ELSE [bound |-> FALSE, raised |-> "None", calls |-> <<>>]

\* a statement that reads audio when enabled: reading an unbound local
\* raises UnboundLocalError
UseAudio(audio, enabled, call) ==
    IF ~enabled \/ audio.raised # "None" THEN audio
    ELSE IF ~audio.bound THEN [audio EXCEPT !.raised = "UnboundLocalError"]
    ELSE [audio EXCEPT !.calls = Append(@, call)]

\* base sound, LFO if enabled, echo if enabled, then audio * envelope *
\* volume normalised to 0.9 and played through winsound
PlayAdvancedSound(adv) ==
    UseAudio(UseAudio(UseAudio(UseAudio(BaseSound(adv),
                                        adv.lfo_enabled, "apply_lfo"),
                               adv.echo_enabled, "apply_simple_echo"),
                      TRUE, "envelope"),
             TRUE, "winsound.PlaySound")

AdvancedSettings ==
    [synthesis_type : {"none", "fm", "noise", "karplus"},
     noise_type : {"white", "pink", "brown"},
     noise_filter_enabled : BOOLEAN,
     noise_filter_type : {"bandpass", "highpass", "lowpass"},
     lfo_enabled : BOOLEAN,
     echo_enabled : BOOLEAN]

\* play_current_sound with advanced.enabled set
PlayAdvancedSoundCall ==
    /\ probe = NoProbe
    /\ \E adv \in AdvancedSettings :
          probe' = [call |-> "_play_advanced_sound", adv |-> adv,
                    audio |-> PlayAdvancedSound(adv)]
    /\ UNCHANGED <<effects_enabled, board, soundfont_player, player_before, pc, op,
                   configs, result, all_audio, mixed, out, sink, trace, adsr, studio,
                   recorder>>

FunctionNext ==
    \/ GenerateAudioCall
    \/ FrequencyToMidiCall
    \/ MidiToFrequencyCall
    \/ PlayAdvancedSoundCall
    \/ ApplySimpleEchoCall
    \/ KarplusStrongCall

FunctionSpec == Init /\ [][FunctionNext]_vars

\* ------------------------------------------------------------------------
\* SoundDesignStudioV2 (sound_design_studio.py): the layer editor.  A layer
\* is its config: volume in tenths, whether the display-only note_name key
\* is present, and the identity of its nested 'advanced' dictionary.
\* current_layer_index counts from 0, so the current layer is
\* document[current_layer_index + 1].
\* ------------------------------------------------------------------------
DictsInUse(document) ==
    {PresetAdvanced} \cup {document[i].advanced : i \in DOMAIN document}

\* the identity of a dictionary created now
NewDict(document) ==
    CHOOSE r \in 1..(Len(document) + 1) :
        /\ r \notin DictsInUse(document)
        /\ \A q \in 1..(r - 1) : q \in DictsInUse(document)

\* a handler has run to its end with an outcome: "ok", or what it did, or
\* the exception that ended it, or the error box it showed; dictionaries
\* nothing refers to are gone
Finished(s, outcome) ==
    [s EXCEPT !.dicts = [r \in DictsInUse(s.document) |-> s.dicts[r]],
              !.status = outcome]

\* refresh_layer_list: if current_layer_index >= len(layers):
\*     current_layer_index = max(0, len(layers) - 1)
Refreshed(s, outcome) ==
    Finished([s EXCEPT !.current_layer_index =
                           IF @ >= Len(s.document) THEN Max(0, Len(s.document) - 1) ELSE @],
             outcome)

\* self.document.layers[self.current_layer_index] outside a try block
IndexError(s) == Finished(s, "IndexError")

HasCurrent(s) == s.current_layer_index < Len(s.document)

EditorStep(next) ==
    /\ studio' = next
    /\ UNCHANGED <<effects_enabled, board, soundfont_player, player_before, pc, op,
                   configs, result, all_audio, mixed, out, sink, trace, adsr, probe,
                   recorder>>

\* document.add_layer(blank=True): SoundLayer._blank_config builds new
\* dictionaries (volume 0.0, fm_mod_ratio 1.0)
AddNewLayer ==
    /\ Len(studio.document) < MaxEditorLayers
    /\ EditorStep(Refreshed(
           [studio EXCEPT !.document = Append(@, [volume |-> 0, note_name |-> FALSE,
                                                  advanced |-> NewDict(studio.document)]),
                          !.dicts = @ @@ (NewDict(studio.document) :> 10),
                          !.current_layer_index = Len(studio.document)],
           "ok"))

\* del self.layers[index]
WithoutLayer(document, index) ==
    SubSeq(document, 1, index) \o SubSeq(document, index + 2, Len(document))

\* the user confirms; the index adjustment after the removal is the clamp
\* that refresh_layer_list repeats
RemoveCurrentLayer ==
    /\ Len(studio.document) > 0
    /\ EditorStep(IF ~HasCurrent(studio) THEN IndexError(studio)
                  ELSE Refreshed([studio EXCEPT !.document =
                                                    WithoutLayer(@, studio.current_layer_index)],
                                 "ok"))

\* SoundLayer.copy: copy.deepcopy(self.config), a layer that shares nothing;
\* it is kept with the content of its own 'advanced' dictionary
CopyOfCurrent(s) ==
    [volume |-> s.document[s.current_layer_index + 1].volume,
     note_name |-> s.document[s.current_layer_index + 1].note_name,
     advanced |-> s.dicts[s.document[s.current_layer_index + 1].advanced]]

\* the layer is removed only if another one remains
CutLayer ==
    /\ Len(studio.document) > 0
    /\ EditorStep(IF ~HasCurrent(studio) THEN IndexError(studio)
                  ELSE IF Len(studio.document) > 1
                  THEN Refreshed([studio EXCEPT !.layer_clipboard = <<CopyOfCurrent(studio)>>,
                                                !.document =
                                                    WithoutLayer(@, studio.current_layer_index)],
                                 "ok")
                  ELSE Finished([studio EXCEPT !.layer_clipboard = <<CopyOfCurrent(studio)>>],
                                "ok"))

CopyLayer ==
    /\ Len(studio.document) > 0
    /\ EditorStep(IF ~HasCurrent(studio) THEN IndexError(studio)
                  ELSE Finished([studio EXCEPT !.layer_clipboard = <<CopyOfCurrent(studio)>>],
                                "ok"))

\* list.insert(position, layer): a position beyond the end appends
InsertAt(document, position, layer) ==
    SubSeq(document, 1, Min(position, Len(document)))
        \o <<layer>>
        \o SubSeq(document, Min(position, Len(document)) + 1, Len(document))

\* new_layer = self.layer_clipboard.copy(), inserted after the current layer
PasteLayer ==
    /\ studio.layer_clipboard # <<>>
    /\ Len(studio.document) < MaxEditorLayers
    /\ EditorStep(Refreshed(
           [studio EXCEPT !.document =
                              InsertAt(@, studio.current_layer_index + 1,
                                       [studio.layer_clipboard[1] EXCEPT
                                            !.advanced = NewDict(studio.document)]),
                          !.dicts = @ @@ (NewDict(studio.document)
                                              :> studio.layer_clipboard[1].advanced),
                          !.current_layer_index = studio.current_layer_index + 1],
           "ok"))

\* layers[idx], layers[other] = layers[other], layers[idx]
Swapped(document, idx, other) ==
    [document EXCEPT ![idx + 1] = document[other + 1], ![other + 1] = document[idx + 1]]

MoveLayerLeft ==
    EditorStep(IF studio.current_layer_index <= 0
               THEN Finished(studio, "ok")
               ELSE IF ~HasCurrent(studio) THEN IndexError(studio)
               ELSE Refreshed([studio EXCEPT !.document =
                                                 Swapped(@, studio.current_layer_index,
                                                         studio.current_layer_index - 1),
                                             !.current_layer_index = @ - 1],
                              "ok"))

MoveLayerRight ==
    EditorStep(IF studio.current_layer_index >= Len(studio.document) - 1
               THEN Finished(studio, "ok")
               ELSE Refreshed([studio EXCEPT !.document =
                                                 Swapped(@, studio.current_layer_index,
                                                         studio.current_layer_index + 1),
                                             !.current_layer_index = @ + 1],
                              "ok"))

\* preset layers as the library holds them: one with scalar settings only,
\* one that carries an 'advanced' dictionary
Presets ==
    {<<[volume |-> 5, has_advanced |-> FALSE]>>, <<[volume |-> 5, has_advanced |-> TRUE]>>}

\* layer = SoundLayer(name); layer.config.update(layer_data['config']):
\* the default config's dictionaries are new (fm_mod_ratio 1.4), and update
\* stores the preset's own 'advanced' dictionary in place of the new one
RECURSIVE LoadLayers(_, _, _)
LoadLayers(s, layers, i) ==
    IF i > Len(layers) THEN s
    ELSE LoadLayers(
             IF layers[i].has_advanced
             THEN [s EXCEPT !.document = Append(@, [volume |-> layers[i].volume,
                                                    note_name |-> FALSE,
                                                    advanced |-> PresetAdvanced])]
             ELSE [s EXCEPT !.document = Append(@, [volume |-> layers[i].volume,
                                                    note_name |-> FALSE,
                                                    advanced |-> NewDict(s.document)]),
                            !.dicts = @ @@ (NewDict(s.document) :> 14)],
             layers, i + 1)

\* the layers are added to the document; the selection is kept
LoadPreset ==
    \E preset \in Presets :
        /\ Len(studio.document) + Len(preset) <= MaxEditorLayers
        /\ EditorStep(Refreshed(LoadLayers(studio, preset, 1), "ok"))

NewDocument ==
    EditorStep(Refreshed([studio EXCEPT !.document = <<>>, !.current_layer_index = 0],
                         "ok"))

\* saved documents: an empty one and one with a layer
Files == {<<>>, <<[volume |-> 5, note_name |-> FALSE, advanced |-> 14]>>}

\* SoundDocument.from_dict(json.load(f)): every config is a newly parsed
\* object
RECURSIVE FromDict(_, _, _)
FromDict(s, layers, i) ==
    IF i > Len(layers) THEN s
    ELSE FromDict([s EXCEPT !.document = Append(@, [layers[i] EXCEPT
                                                       !.advanced = NewDict(s.document)]),
                            !.dicts = @ @@ (NewDict(s.document) :> layers[i].advanced)],
                  layers, i + 1)

OpenDocument ==
    \E file \in Files :
        EditorStep(Refreshed(FromDict([studio EXCEPT !.document = <<>>,
                                                     !.current_layer_index = 0],
                                      file, 1),
                             "ok"))

\* layer_list_key_handler, Left and Right without Alt
KeyLeft ==
    EditorStep(IF studio.current_layer_index > 0
               THEN Refreshed([studio EXCEPT !.current_layer_index = @ - 1], "ok")
               ELSE Finished(studio, "ok"))

KeyRight ==
    EditorStep(IF studio.current_layer_index < Len(studio.document) - 1
               THEN Refreshed([studio EXCEPT !.current_layer_index = @ + 1], "ok")
               ELSE Finished(studio, "ok"))

\* The list shows the current layer only: a header in row 0, then the name
\* and at least twelve property rows.  These are rows a click can land on.
ClickableRows == {1, 2}

\* itemClicked: self.current_layer_index = self.layer_list.currentRow()
OnLayerSelected ==
    \E row \in ClickableRows :
        /\ Len(studio.document) > 0
        /\ EditorStep(Finished([studio EXCEPT !.current_layer_index = row],
                               "ok"))

\* DesignDialog.apply_changes: cfg = self.layer.config is written in place,
\* cfg['volume'] = ... and cfg['advanced']['fm_mod_ratio'] = ...; the
\* SoundFont tab keeps a positive volume, else sets 0.7, and stores
\* cfg['note_name']
Applied(s, tab, volume, ratio) ==
    [s EXCEPT !.document[s.current_layer_index + 1] =
                  [@ EXCEPT !.volume = IF tab = "basic" THEN volume
                                       ELSE IF @ <= 0 THEN 7 ELSE @,
                            !.note_name = @ \/ tab = "soundfont"],
              !.dicts[s.document[s.current_layer_index + 1].advanced] = ratio]

\* open_design_dialog, Apply, close
ApplyChanges ==
    \E tab \in {"basic", "soundfont"}, volume \in {5}, ratio \in {10} :
        /\ Len(studio.document) > 0
        /\ EditorStep(IF ~HasCurrent(studio) THEN IndexError(studio)
                      ELSE Refreshed(Applied(studio, tab, volume, ratio), "applied"))

\* the fields of the PlayAudioConfig dataclass
PlayAudioConfigFields ==
    {"frequency", "wave_type", "duration", "volume", "attack", "decay", "sustain",
     "release", "overlap", "harmonics", "blending", "advanced", "effects", "soundfont",
     "play_type", "recorded_audio_file", "recording_notes"}

\* the keys of a layer's config: those of _default_config / _blank_config
\* and note_name once the SoundFont tab has stored it
ConfigKeys(layer) ==
    {"frequency", "wave_type", "duration", "volume", "attack", "decay", "sustain",
     "release", "overlap", "harmonics", "blending", "advanced", "effects", "soundfont",
     "play_type"}
        \cup (IF layer.note_name THEN {"note_name"} ELSE {})

\* PlayAudioConfig(**kwargs) raises TypeError for a keyword that is no field
Accepts(keys) == keys \subseteq PlayAudioConfigFields

\* play_focused_layer -> play_layer: every exception is caught and shown;
\* audio_config = {k: v for k, v in layer.config.items() if k != 'note_name'}
PlayFocusedLayer ==
    /\ Len(studio.document) > 0
    /\ EditorStep(Finished(studio,
                           IF HasCurrent(studio)
                              /\ Accepts(ConfigKeys(studio.document[studio.current_layer_index + 1])
                                             \ {"note_name"})
                           THEN "played" ELSE "Playback Error"))

\* export_layer_to_wav, a file name chosen: PlayAudioConfig(**layer.config)
\* inside try, the layer lookup before it
ExportLayerToWav ==
    /\ Len(studio.document) > 0
    /\ EditorStep(IF ~HasCurrent(studio) THEN IndexError(studio)
                  ELSE Finished(studio,
                                IF Accepts(ConfigKeys(
                                       studio.document[studio.current_layer_index + 1]))
                                THEN "exported" ELSE "Export Error"))

\* export_to_wav, a file name chosen:
\* configs = [PlayAudioConfig(**layer.config) for layer in self.document.layers]
ExportDocumentToWav ==
    /\ Len(studio.document) > 0
    /\ EditorStep(Finished(studio,
                           IF \A i \in DOMAIN studio.document :
                                  Accepts(ConfigKeys(studio.document[i]))
                           THEN "exported" ELSE "Export Error"))

EditorNext ==
    \/ AddNewLayer
    \/ RemoveCurrentLayer
    \/ CutLayer
    \/ CopyLayer
    \/ PasteLayer
    \/ MoveLayerLeft
    \/ MoveLayerRight
    \/ LoadPreset
    \/ NewDocument
    \/ OpenDocument
    \/ KeyLeft
    \/ KeyRight
    \/ OnLayerSelected
    \/ ApplyChanges
    \/ PlayFocusedLayer
    \/ ExportLayerToWav
    \/ ExportDocumentToWav

\* the studio on an installation that provides both libraries
StudioInit == Init /\ effects_enabled /\ board = "gain"

EditorSpec == StudioInit /\ [][EditorNext]_vars

\* ------------------------------------------------------------------------
\* KeyboardRecorderDialog (keyboard_recorder.py).  now is the clock read by
\* time.time(), one tick per event; held is the set of note keys that are
\* physically down; event is the event handled last.  session counts the
\* recordings started and is kept with each captured press and each note;
\* captured is the set of held keys whose press was stored in pressed_keys
\* during the current session.
\* ------------------------------------------------------------------------
NoteKeys == {"A", "S"}

\* an event arrives
Arrived(r, type, key, held) ==
    [r EXCEPT !.now = @ + 1, !.held = held, !.captured = @ \cap held,
              !.event = [type |-> type, key |-> key]]

\* keyPressEvent for a note key that is not an auto-repeat: in controls mode
\* Qt handles it; else the note sounds and, while recording,
\* pressed_keys[key] = (time.time() - recording_start_time, ...)
KeyPressed(r, key) ==
    IF ~r.keyboard_focus_mode \/ ~r.is_recording THEN r
    ELSE [r EXCEPT !.pressed_keys =
                       (key :> [press_time |-> r.now - r.recording_start_time,
                                session |-> r.session]) @@ @,
                   !.captured = @ \cup {key}]

\* keyReleaseEvent: in controls mode Qt handles it; for a key in
\* pressed_keys, duration = release_time - press_time, the note is appended
\* if self.is_recording, and the key is deleted from pressed_keys
KeyReleased(r, key) ==
    IF ~r.keyboard_focus_mode \/ key \notin DOMAIN r.pressed_keys THEN r
    ELSE [r EXCEPT !.recorded_notes =
                       IF r.is_recording
                       THEN Append(@, [press_time |-> r.pressed_keys[key].press_time,
                                       key |-> key,
                                       duration |-> (r.now - r.recording_start_time)
                                                        - r.pressed_keys[key].press_time,
                                       session |-> r.pressed_keys[key].session])
                       ELSE @,
                   !.pressed_keys = [k \in DOMAIN @ \ {key} |-> @[k]]]

RecorderStep(next) ==
    /\ recorder.now < MaxTime
    /\ recorder' = next
    /\ UNCHANGED <<effects_enabled, board, soundfont_player, player_before, pc, op,
                   configs, result, all_audio, mixed, out, sink, trace, adsr, probe,
                   studio>>

KeyPress ==
    \E key \in NoteKeys \ recorder.held :
        RecorderStep(KeyPressed(Arrived(recorder, "press", key, recorder.held \cup {key}),
                                key))

KeyRelease ==
    \E key \in recorder.held :
        RecorderStep(KeyReleased(Arrived(recorder, "release", key, recorder.held \ {key}),
                                 key))

\* keyPressEvent for Tab: keyboard_focus_mode = not keyboard_focus_mode
TabPress ==
    RecorderStep([Arrived(recorder, "tab", "Tab", recorder.held)
                     EXCEPT !.keyboard_focus_mode = ~@])

\* the Start button, enabled while not recording
StartRecording ==
    /\ ~recorder.is_recording
    /\ RecorderStep([Arrived(recorder, "start", "none", recorder.held)
                        EXCEPT !.is_recording = TRUE,
                               !.recorded_notes = <<>>,
                               !.pressed_keys = [k \in {} |-> 0],
                               !.recording_start_time = recorder.now + 1,
                               !.keyboard_focus_mode = TRUE,
                               !.captured = {},
                               !.session = @ + 1])

\* the Stop button, enabled while recording
StopRecording ==
    /\ recorder.is_recording
    /\ RecorderStep([Arrived(recorder, "stop", "none", recorder.held)
                        EXCEPT !.is_recording = FALSE])

\* the Clear button, always enabled
ClearRecording ==
    RecorderStep([Arrived(recorder, "clear", "none", recorder.held)
                     EXCEPT !.recorded_notes = <<>>,
                            !.pressed_keys = [k \in {} |-> 0]])

RecorderNext ==
    \/ KeyPress
    \/ KeyRelease
    \/ TabPress
    \/ StartRecording
    \/ StopRecording
    \/ ClearRecording

RecorderSpec == StudioInit /\ [][RecorderNext]_vars

\* ------------------------------------------------------------------------
\* Properties
\* ------------------------------------------------------------------------
Simultaneous == op \in {"play_mixed_sounds", "export_mixed_to_wav"}

\* C1: in every _apply_adsr call the attack, decay, sustain and release
\* sample counts sum exactly to the length of the buffer being shaped,
\* whatever the attack, decay and release times.
AdsrPhasesSumToTotal ==
    \A i \in DOMAIN adsr :
        adsr[i].counts.attack + adsr[i].counts.decay
            + adsr[i].counts.sustain + adsr[i].counts.release
        = adsr[i].num_samples

\* a render whose configured attack alone is longer than the buffer, and one
\* whose attack and decay together are
AdsrDegenerateCase ==
    /\ op = "export_to_wav"
    /\ Len(adsr) = 1
    /\ adsr[1].num_samples = 4
    /\ configs[1].attack = Samples(2)
    /\ configs[1].decay = Samples(5)
    /\ adsr[1].counts = [attack |-> 2, decay |-> 2, sustain |-> 0, release |-> 0]


\* ------------------------------------------------------------------------
\* What the layers of the last call say the result should be
\* ------------------------------------------------------------------------
\* every layer of the list was rendered
AllRendered == Len(all_audio) = Len(configs)

LayerLengths == {ArrLen(all_audio[k]) : k \in DOMAIN all_audio}

\* the maximum layer length
LongestLayer ==
    IF all_audio = <<>> THEN 0
    ELSE CHOOSE n \in LayerLengths : \A m \in LayerLengths : m <= n

\* sample j of layer k once the layer is zero-padded
PaddedSample(k, j) ==
    IF j <= ArrLen(all_audio[k]) THEN all_audio[k].data[j] ELSE Zero

RECURSIVE LayerSum(_, _)
LayerSum(j, n) == IF n = 0 THEN Zero ELSE RAdd(LayerSum(j, n - 1), PaddedSample(n, j))

MeanOfPadded ==
    [j \in 1..LongestLayer |-> RDiv(LayerSum(j, Len(all_audio)), Q(Len(all_audio), 1))]

\* the number of samples of the layers before layer k
RECURSIVE LayerOffset(_)
LayerOffset(k) == IF k <= 1 THEN 0 ELSE LayerOffset(k - 1) + ArrLen(all_audio[k - 1])

WithinUnit(x) == RLe(RNeg(One), x) /\ RLe(x, One)

\* the headroom rule followed by the hard clip, on a non-empty buffer
HeadroomThenClip(samples) ==
    IF RGt(Peak(samples), Q(4, 5))
    THEN Clip(Scale(samples, RDiv(Q(4, 5), Peak(samples))))
    ELSE Clip(samples)

\* C2: simultaneous mixing of N >= 2 layer buffers zero-pads every buffer to
\* the maximum layer length and produces, before the headroom scaling, the
\* elementwise mean of the padded buffers; the output has the maximum layer
\* length.
MixIsMeanOfPaddedLayers ==
    (Simultaneous /\ Len(configs) >= 2 /\ AllRendered) =>
        /\ mixed.ok
        /\ mixed.data = MeanOfPadded
        /\ (sink # "none" => Len(out.data) = LongestLayer)

IdenticalCopies ==
    Len(configs) >= 1 /\ \A k \in DOMAIN configs : configs[k] = configs[1]

\* C4: mixing k >= 1 identical copies of a layer simultaneously yields the
\* same output buffer as mixing that layer alone.
CopiesMixLikeOneLayer ==
    (Simultaneous /\ IdenticalCopies) =>
        /\ out = ExportMixedToWavOutcome(player_before, effects_enabled, board,
                                         <<configs[1]>>).out
        /\ (result = "raised") =
              (ExportMixedToWavOutcome(player_before, effects_enabled, board,
                                       <<configs[1]>>).result = "raised")

\* C5 as stated: with exactly one layer the simultaneous mixer outputs that
\* layer's buffer, only clipped to [-1,1].
SingleLayerOnlyClipped ==
    (Simultaneous /\ Len(configs) = 1 /\ AllRendered /\ sink # "none") =>
        /\ mixed = all_audio[1]
        /\ out = ClipArr(all_audio[1])

\* C5: with exactly one layer the simultaneous mixer bypasses padding and
\* averaging (the mix is that layer's buffer itself), and its output is that
\* buffer after the headroom rule (scaled by 0.8/peak when its peak exceeds
\* 0.8) and then the clip; an empty buffer raises at the peak computation
\* and nothing is output.
SingleLayerBypassesAveraging ==
    (Simultaneous /\ Len(configs) = 1 /\ AllRendered) =>
        /\ mixed = all_audio[1]
        /\ IF ArrLen(all_audio[1]) = 0
           THEN result = "raised" /\ sink = "none"
           ELSE /\ sink # "none"
                /\ out = [all_audio[1] EXCEPT !.data = HeadroomThenClip(@)]

\* a single loud layer was mixed and came out scaled, not just clipped
SingleLoudLayerScaled ==
    /\ Simultaneous
    /\ Len(configs) = 1
    /\ sink # "none"
    /\ RGt(Peak(all_audio[1].data), Q(4, 5))
    /\ out # ClipArr(all_audio[1])
    /\ Peak(out.data) = Q(4, 5)

\* C6: after simultaneous mixing a mix whose peak exceeds 0.8 is scaled by
\* 0.8/peak, so that the output peak does not exceed 0.8; a mix whose peak is
\* at most 0.8 is output unscaled.
HeadroomScaling ==
    (Simultaneous /\ sink # "none") =>
        IF RGt(Peak(mixed.data), Q(4, 5))
        THEN /\ out.data = Scale(mixed.data, RDiv(Q(4, 5), Peak(mixed.data)))
             /\ RLe(Peak(out.data), Q(4, 5))
        ELSE out.data = mixed.data

\* a mix of several layers peaked above 0.8 and was brought down to 0.8
LoudMixScaled ==
    /\ Simultaneous
    /\ Len(configs) >= 2
    /\ sink # "none"
    /\ RGt(Peak(mixed.data), Q(4, 5))
    /\ Peak(out.data) = Q(4, 5)
    /\ out.data # mixed.data

\* C7: on every output path every sample of the buffer handed to the
\* playback device or to the 16-bit encoder lies in [-1,1].
OutputWithinUnit ==
    sink # "none" => \A j \in DOMAIN out.data : WithinUnit(out.data[j])

ListOrders(n) ==
    {p \in [1..n -> 1..n] : \A i, j \in 1..n : i # j => p[i] # p[j]}

Permuted(cs, p) == [k \in 1..Len(cs) |-> cs[p[k]]]

\* every permutation of the list mixes to the same output buffer
MixOrderIndependent ==
    Simultaneous =>
        \A p \in ListOrders(Len(configs)) :
            ExportMixedToWavOutcome(player_before, effects_enabled, board,
                                    Permuted(configs, p)).out = out

\* swapping two layers with different non-empty buffers changes the
\* sequential output
SequentialOrderMatters ==
    (/\ op = "export_sequential_to_wav" /\ Len(configs) = 2 /\ result = "True"
     /\ all_audio[1] # all_audio[2]
     /\ ArrLen(all_audio[1]) > 0 /\ ArrLen(all_audio[2]) > 0) =>
        ExportSequentialToWavOutcome(player_before,
                                     <<configs[2], configs[1]>>).out # out

\* C8: simultaneous mixing is order-independent (every permutation of the
\* layer list produces the same output buffer) and sequential mixing is
\* order-dependent (swapping two different layers changes the output).
MixingOrder == MixOrderIndependent /\ SequentialOrderMatters

\* C9: with zero layers play_mixed_sounds, export_mixed_to_wav and
\* export_sequential_to_wav return without raising, render no layer, and
\* play or write no buffer.
ZeroLayersIsNoOp ==
    (op \in {"play_mixed_sounds", "export_mixed_to_wav", "export_sequential_to_wav"}
     /\ configs = <<>>) =>
        /\ result = (IF op = "play_mixed_sounds" THEN "None" ELSE "False")
        /\ trace = <<>>
        /\ all_audio = <<>>
        /\ adsr = <<>>
        /\ sink = "none"
        /\ soundfont_player = player_before

\* the sequential export was called with no layers and returned False
SequentialExportOfNothing ==
    /\ pc = "returned"
    /\ op = "export_sequential_to_wav"
    /\ configs = <<>>
    /\ result = "False"

\* the indices of the trace at which apply_effects ran for layer k
EffectsSteps(k) == {i \in DOMAIN trace : trace[i] = Step("apply_effects", k)}

\* C10: on every multi-layer render path (simultaneous play, simultaneous
\* export, sequential export) apply_effects is called exactly once for each
\* rendered layer, right after that layer's volume scaling and before the
\* layers are combined.
EffectsOncePerLayer ==
    op \in {"play_mixed_sounds", "export_mixed_to_wav", "export_sequential_to_wav"} =>
        \A k \in DOMAIN all_audio :
            /\ Cardinality(EffectsSteps(k)) = 1
            /\ \A i \in EffectsSteps(k) : i > 1 /\ trace[i - 1] = Step("volume", k)

\* ------------------------------------------------------------------------
\* Fallbacks and error handling
\* ------------------------------------------------------------------------
SingleExport == op = "export_to_wav" /\ Len(configs) = 1

\* the layer selects the SoundFont path and that path is unavailable or
\* fails: no file chosen, or the attempt hands over to synthesis
SoundfontPathFails(sfp, config) ==
    /\ config.soundfont.enabled
    /\ config.play_type # "recorded_sequence"
    /\ \/ config.soundfont.soundfont_path \in {"", "No SoundFont loaded"}
       \/ SoundfontAttempt(sfp, SampleRate, config).fallback

\* what export_to_wav keeps of a layer rendered by pure synthesis
SynthesisSamples(config) ==
    ApplyEffects(effects_enabled, board,
                 ScaleArr(GenerateAudioSynthesis(SampleRate, config).audio,
                          config.volume),
                 config.effects)

\* C11: when a layer selects the SoundFont path and that path is unavailable
\* or fails, _generate_audio returns exactly the buffer pure synthesis
\* produces for the same config and no error reaches the caller: the export
\* of that layer returns True and its samples are those of the synthesis.
SoundfontFallsBackToSynthesis ==
    (SingleExport /\ SoundfontPathFails(player_before, configs[1]))
        => /\ result = "True"
           /\ all_audio = <<SynthesisSamples(configs[1])>>

\* the buffer export_to_wav hands to apply_effects
EffectsInput(config) ==
    ScaleArr(GenerateAudio(player_before, SampleRate, config).audio, config.volume)

\* the effects chain is missing, disabled for the layer, or fails
EffectsChainOut(config) ==
    ~effects_enabled \/ ~config.effects.enabled \/ board = "raise"

\* C12: a missing, disabled or failing effects chain never alters the layer:
\* apply_effects returns its input buffer unchanged, with the same samples,
\* the same length and the same one-dimensional shape.
FailedEffectsLeaveLayerUnchanged ==
    (SingleExport /\ result = "True" /\ EffectsChainOut(configs[1]))
        => /\ all_audio[1] = EffectsInput(configs[1])
           /\ all_audio[1].ndim = 1

\* C13: the renderer is total: for any layer config, out-of-domain
\* parameters included, _generate_audio returns a buffer instead of raising,
\* so an export of one layer never ends in an exception.
RendererIsTotal ==
    SingleExport
        => /\ GenerateAudio(player_before, SampleRate, configs[1]).audio.ok
           /\ result # "raised"

\* the part of C13 that the code does provide: ADSR times longer than the
\* duration and frequencies at or below zero are rendered
RendersOutOfDomainFrequency ==
    (SingleExport /\ configs[1] \in OutOfDomainConfigs
                  /\ RLe(configs[1].frequency, Zero))
        => result = "True" /\ ArrLen(all_audio[1]) = 3

\* ------------------------------------------------------------------------
\* Determinism and state between calls
\* ------------------------------------------------------------------------
\* the SoundFont player as it is before the first render
FreshPlayer == NewSoundFontPlayer(player_before.enabled)

\* the outcome of the last call had it been the first render
FirstRender ==
    IF op = "play_sound"
    THEN PlaySoundOutcome(FreshPlayer, effects_enabled, board, configs[1])
    ELSE IF op = "export_to_wav"
    THEN ExportToWavOutcome(FreshPlayer, effects_enabled, board, configs[1])
    ELSE IF op = "play_mixed_sounds"
    THEN PlayMixedSoundsOutcome(FreshPlayer, effects_enabled, board, configs)
    ELSE IF op = "export_mixed_to_wav"
    THEN ExportMixedToWavOutcome(FreshPlayer, effects_enabled, board, configs)
    ELSE ExportSequentialToWavOutcome(FreshPlayer, configs)

\* C14: rendering is deterministic: a render of a document produces the
\* output buffer that the first render of the same document (same ordered
\* layer configs, same playback mode) produces, whatever renders were
\* performed before it.
RenderingIsDeterministic ==
    pc = "returned"
        => /\ out = FirstRender.out
           /\ result = FirstRender.result

\* C15: the pipeline holds no state between calls: a render leaves the
\* SoundFont player, its soundfont_id and current_soundfont_path included,
\* exactly as it was before the call.
RenderLeavesPlayerUnchanged ==
    pc = "returned"
        => /\ soundfont_player.soundfont_id = player_before.soundfont_id
           /\ soundfont_player.current_soundfont_path
                  = player_before.current_soundfont_path
           /\ soundfont_player = player_before

\* ------------------------------------------------------------------------
\* The stages of synthesis
\* ------------------------------------------------------------------------
\* the sample times of a layer
LayerTimes(config) ==
    TimeVector(config.duration, NumSamples(SampleRate, config.duration))

\* a layer that only blends: no harmonics, a flat envelope, full volume, no
\* effects, no SoundFont, no recording
OnlyBlends(config) ==
    /\ config.blending.enabled
    /\ config.wave_type \in {"square", "sawtooth"}
    /\ ~config.harmonics.enabled
    /\ config.attack = Zero /\ config.decay = Zero /\ config.release = Zero
    /\ config.sustain = One /\ config.volume = One
    /\ ~config.effects.enabled /\ ~config.soundfont.enabled
    /\ ~config.advanced.enabled
    /\ config.play_type = "custom"
    /\ RGt(config.duration, Zero)

\* square is paired with triangle, sawtooth with sine
PairedWave(wave_type) == IF wave_type = "square" THEN "triangle" ELSE "sine"

\* primary * (1 - r) + secondary * r at sample time x, r the configured ratio
ConfiguredBlend(config, x) ==
    RAdd(RMul(WaveSample(RMul(config.frequency, x), config.wave_type),
              RSub(One, config.blending.blend_ratio)),
         RMul(WaveSample(RMul(config.frequency, x), PairedWave(config.wave_type)),
              config.blending.blend_ratio))

\* C16: with blending enabled and wave_type square (paired with triangle) or
\* sawtooth (paired with sine), the blended output is
\* primary*(1-r) + secondary*r with r exactly the configured blend_ratio.
BlendUsesConfiguredRatio ==
    (SingleExport /\ OnlyBlends(configs[1]) /\ result = "True")
        => all_audio[1].data
             = [j \in 1..Len(LayerTimes(configs[1])) |->
                    ConfiguredBlend(configs[1], LayerTimes(configs[1])[j])]

\* a layer that only adds harmonics: no blending, a flat envelope, full
\* volume, no effects, no SoundFont, no recording
OnlyHarmonics(config) ==
    /\ config.harmonics.enabled
    /\ ~config.blending.enabled
    /\ config.attack = Zero /\ config.decay = Zero /\ config.release = Zero
    /\ config.sustain = One /\ config.volume = One
    /\ ~config.effects.enabled /\ ~config.soundfont.enabled
    /\ ~config.advanced.enabled
    /\ config.play_type = "custom"
    /\ RLe(Zero, config.harmonics.octave_volume)
    /\ RLe(Zero, config.harmonics.fifth_volume)
    /\ RLe(Zero, config.harmonics.sub_bass_volume)

\* the partial at ratio times the fundamental, at its volume
Partial(config, x, ratio, volume) ==
    RMul(WaveSample(RMul(RMul(config.frequency, ratio), x), config.wave_type), volume)

\* fundamental + octave + fifth + sub-bass at sample time x
HarmonicSum(config, x) ==
    RAdd(RAdd(WaveSample(RMul(config.frequency, x), config.wave_type),
              Partial(config, x, Q(2, 1), config.harmonics.octave_volume)),
         RAdd(Partial(config, x, Q(3, 2), config.harmonics.fifth_volume),
              Partial(config, x, Q(1, 2), config.harmonics.sub_bass_volume)))

HarmonicSums(config) ==
    [j \in 1..Len(LayerTimes(config)) |-> HarmonicSum(config, LayerTimes(config)[j])]

\* data is sums divided by their peak when the peak exceeds 1, sums otherwise
NormalizedSums(data, sums, peak) ==
    IF RGt(peak, One)
    THEN data = [j \in 1..Len(sums) |-> RDiv(sums[j], peak)]
    ELSE data = sums

\* C17: for non-negative octave, fifth and sub-bass volumes every sample of
\* _apply_harmonics' output has magnitude at most 1: a sum whose peak
\* exceeds 1 is divided by its peak, a sum whose peak is at most 1 is
\* returned unscaled.
HarmonicsNormalized ==
    (SingleExport /\ OnlyHarmonics(configs[1]) /\ result = "True")
        => /\ \A j \in 1..Len(all_audio[1].data) : WithinUnit(all_audio[1].data[j])
           /\ NormalizedSums(all_audio[1].data, HarmonicSums(configs[1]),
                             Peak(HarmonicSums(configs[1])))

\* a square layer with a sub-bass at half volume sums to [0, 3/2, 1/2] and
\* is scaled down to a peak of exactly 1
HarmonicsScaledDown ==
    /\ SingleExport /\ OnlyHarmonics(configs[1]) /\ result = "True"
    /\ configs[1].wave_type = "square"
    /\ configs[1].harmonics.octave_volume = Zero
    /\ configs[1].harmonics.fifth_volume = Zero
    /\ configs[1].harmonics.sub_bass_volume = Q(1, 2)
    /\ HarmonicSums(configs[1]) = <<Zero, Q(3, 2), Q(1, 2)>>
    /\ all_audio[1].data = <<Zero, One, Q(1, 3)>>

\* a layer that is its bare waveform: no harmonics, no blending, a flat
\* envelope, full volume, no effects, no SoundFont, no recording
OnlyWaveform(config) ==
    /\ ~config.harmonics.enabled
    /\ ~config.blending.enabled
    /\ config.attack = Zero /\ config.decay = Zero /\ config.release = Zero
    /\ config.sustain = One /\ config.volume = One
    /\ ~config.effects.enabled /\ ~config.soundfont.enabled
    /\ ~config.advanced.enabled
    /\ config.play_type = "custom"
    /\ RGt(config.frequency, Zero)

KnownWaves == {"sine", "square", "sawtooth", "triangle"}

\* C18: for every wave_type (sine, square, sawtooth, triangle, and any
\* unrecognised type, which is rendered as sine) and every frequency f > 0,
\* each sample produced by _generate_waveform lies in [-1,1].
WaveformWithinUnit ==
    (SingleExport /\ OnlyWaveform(configs[1]) /\ result = "True")
        => /\ \A j \in 1..Len(all_audio[1].data) : WithinUnit(all_audio[1].data[j])
           /\ configs[1].wave_type \notin KnownWaves
                 => all_audio[1].data
                      = [j \in 1..Len(LayerTimes(configs[1])) |->
                           Sin2Pi(RMul(configs[1].frequency, LayerTimes(configs[1])[j]))]

\* a sawtooth a quarter cycle per sample: it ramps to a half and wraps to -1
SawtoothReachesMinusOne ==
    /\ SingleExport /\ OnlyWaveform(configs[1]) /\ result = "True"
    /\ configs[1].wave_type = "sawtooth"
    /\ configs[1].frequency = Q(SampleRate, 4)
    /\ all_audio[1].data = <<Zero, Q(1, 2), RNeg(One)>>

\* ------------------------------------------------------------------------
\* Functions called directly
\* ------------------------------------------------------------------------
\* {frequency 440, sine, duration 1.0, volume 1.0, attack 0, decay 0,
\*  sustain 1, release 0, harmonics off, blending off}
ScenarioOne == [PlainConfig EXCEPT !.frequency = Q(440, 1), !.duration = One]

ScenarioOneRendered == probe.call = "_generate_audio" /\ probe.config = ScenarioOne

\* C19 as stated: rendering the layer {440 Hz, sine, 1.0 s, volume 1, flat
\* envelope, no harmonics, no blending} yields exactly 44100 samples, with
\* sample 0 equal to 0 and sample 11025 at a waveform peak (magnitude 1).
ScenarioOnePeakAtQuarter ==
    ScenarioOneRendered
        => /\ probe.length = 44100
           /\ probe.index = 0 => probe.sample = Zero
           /\ probe.index = 11025 => RAbs(probe.sample) = One

\* C19 as the code has it: the layer yields exactly 44100 samples, sample 0
\* is 0, and sample 11025, a quarter of a second and 110 whole cycles in, is
\* at a zero crossing of the sine, not at a peak.
ScenarioOneZeroAtQuarter ==
    ScenarioOneRendered
        => /\ probe.length = 44100
           /\ probe.index = 0 => probe.sample = Zero
           /\ probe.index = 11025 => probe.sample = Zero

\* sample 11025 of the scenario has been looked at
ScenarioOneQuarterSecond ==
    /\ ScenarioOneRendered
    /\ probe.length = SAMPLE_RATE
    /\ probe.index = 11025
    /\ probe.sample = Zero

\* the notes a quarter tone below and above: 2 ** (0.5 / 12) apart
RatioWithinQuarterTone(ratio) ==
    /\ RLe(RDiv(One, HalfStepRatio(0)), ratio)
    /\ RLe(ratio, HalfStepRatio(0))

WithinQuarterTone(frequency, note_frequency) ==
    RatioWithinQuarterTone(RDiv(frequency, note_frequency))

\* C20: frequency_to_midi maps a frequency to the nearest MIDI note,
\* round(69 + 12*log2(f/440)): the note's frequency is within a quarter tone
\* of f, frequency_to_midi(440) = 69, and
\* frequency_to_midi(midi_to_frequency(n)) = n for every note n in 0..127.
FrequencyToMidiIsNearestNote ==
    (probe.call = "frequency_to_midi" /\ probe.ok)
        => /\ WithinQuarterTone(probe.frequency, MidiToFrequency(probe.midi_note))
           /\ probe.frequency = Q(440, 1) => probe.midi_note = 69
           /\ probe.from_note \in MidiNotes => probe.midi_note = probe.from_note

\* the highest note has gone to its frequency and back
HighestNoteRoundTrip ==
    /\ probe.call = "frequency_to_midi"
    /\ probe.from_note = 127
    /\ probe.ok
    /\ probe.midi_note = 127
    /\ RGt(probe.frequency, Q(12543, 1))

\* ------------------------------------------------------------------------
\* Sample counts
\* ------------------------------------------------------------------------
\* round(x): to the nearest whole number, a half going to the even one
Round(x) ==
    IF Frac(x) = Q(1, 2)
    THEN IF Floor(x) % 2 = 0 THEN Floor(x) ELSE Floor(x) + 1
    ELSE Floor(RAdd(x, Q(1, 2)))

\* the layer is rendered by synthesis
Synthesised(config) ==
    ~config.soundfont.enabled /\ config.play_type = "custom"

\* C21: durations and envelope times are converted to sample counts by
\* rounding to nearest: the buffer has round(duration * sample_rate) samples
\* and the attack occupies round(attack * sample_rate) samples before it is
\* clamped to the buffer.
SampleCountsRounded ==
    (SingleExport /\ Synthesised(configs[1]) /\ result = "True")
        => /\ ArrLen(all_audio[1])
                = Round(RMul(configs[1].duration, Q(SampleRate, 1)))
           /\ \A i \in DOMAIN adsr :
                 adsr[i].counts.attack
                   = Min(Round(RMul(configs[1].attack, Q(SampleRate, 1))),
                         adsr[i].num_samples)

\* what the code does instead of C21: the counts are truncated toward zero
SampleCountsTruncated ==
    (SingleExport /\ Synthesised(configs[1]) /\ result = "True")
        => /\ ArrLen(all_audio[1])
                = Trunc(RMul(configs[1].duration, Q(SampleRate, 1)))
           /\ \A i \in DOMAIN adsr :
                 adsr[i].counts.attack
                   = Min(Trunc(RMul(configs[1].attack, Q(SampleRate, 1))),
                         adsr[i].num_samples)

\* ------------------------------------------------------------------------
\* Advanced synthesis
\* ------------------------------------------------------------------------
\* the same layer with the advanced settings switched off
WithoutAdvanced(config) == [config EXCEPT !.advanced.enabled = FALSE]

\* C22: on the primary render path the advanced-synthesis hook is inert:
\* the buffer rendered with advanced.enabled = true is the buffer rendered
\* with advanced.enabled = false, whatever the synthesis_type, LFO and echo
\* settings.
AdvancedHookIsInert ==
    (SingleExport /\ configs[1].advanced.enabled)
        => /\ result = ExportToWavOutcome(player_before, effects_enabled, board,
                                          WithoutAdvanced(configs[1])).result
           /\ all_audio = ExportToWavOutcome(player_before, effects_enabled, board,
                                             WithoutAdvanced(configs[1])).all_audio
           /\ out = ExportToWavOutcome(player_before, effects_enabled, board,
                                       WithoutAdvanced(configs[1])).out

\* a sawtooth layer set to Karplus-Strong with LFO and echo was exported
AdvancedKarplusRendered ==
    /\ SingleExport
    /\ configs[1].advanced
         = [enabled |-> TRUE, synthesis_type |-> "karplus",
            lfo_enabled |-> TRUE, echo_enabled |-> TRUE]
    /\ configs[1].wave_type = "sawtooth"
    /\ result = "True"
    /\ ArrLen(out) = 3
    /\ Peak(out.data) # Zero

\* ------------------------------------------------------------------------
\* Advanced render path
\* ------------------------------------------------------------------------
BaseSources ==
    {"generate_fm_synthesis", "generate_white_noise", "generate_pink_noise",
     "generate_brown_noise", "karplus_strong"}

AdvancedPlayed == probe.call = "_play_advanced_sound"

BaseCalls == {i \in DOMAIN probe.audio.calls : probe.audio.calls[i] \in BaseSources}

\* the calls after the base sound and its noise filter, up to the envelope
Modulation ==
    SelectSeq(probe.audio.calls, LAMBDA c : c \in {"apply_lfo", "apply_simple_echo"})

ExpectedModulation ==
    (IF probe.adv.lfo_enabled THEN <<"apply_lfo">> ELSE <<>>)
        \o (IF probe.adv.echo_enabled THEN <<"apply_simple_echo">> ELSE <<>>)

\* C23: in the advanced render path every synthesis_type in {none, fm, noise,
\* karplus} has exactly one base source producing the buffer, which is the
\* first call, followed by LFO tremolo if enabled and then echo if enabled.
SynthesisTypeSelectsOneBase ==
    AdvancedPlayed
        => /\ probe.audio.raised = "None"
           /\ BaseCalls = {1}
           /\ Modulation = ExpectedModulation

\* the same for the three values the selector's branches name
ListedTypeSelectsOneBase ==
    (AdvancedPlayed /\ probe.adv.synthesis_type \in {"fm", "noise", "karplus"})
        => /\ probe.audio.raised = "None"
           /\ BaseCalls = {1}
           /\ Modulation = ExpectedModulation
           /\ probe.audio.calls[Len(probe.audio.calls)] = "winsound.PlaySound"

NoneTypeRaises ==
    (AdvancedPlayed /\ probe.adv.synthesis_type = "none")
        => /\ probe.audio.raised = "UnboundLocalError"
           /\ probe.audio.calls = <<>>

\* ------------------------------------------------------------------------
\* Echo
\* ------------------------------------------------------------------------
EchoReturned == probe.call = "apply_simple_echo" /\ probe.echo.raised = "None"

\* output[i] = scale * input[i] below the delay, and from the delay on
\* output[i] = scale * input[i] + feedback * output[i - delay]; with a delay
\* of no samples every sample is its own tap
EchoRecurrence(scale) ==
    \A i \in 1..Len(probe.input) :
        probe.echo.output[i] =
            IF probe.echo.delay_samples = 0
            THEN RMul(scale, RMul(probe.input[i], RAdd(One, probe.feedback)))
            ELSE IF i <= probe.echo.delay_samples
            THEN RMul(scale, probe.input[i])
            ELSE RAdd(RMul(scale, probe.input[i]),
                      RMul(probe.feedback, probe.echo.output[i - probe.echo.delay_samples]))

EchoScale ==
    IF RGt(probe.echo.max_val, One) THEN RDiv(One, probe.echo.max_val) ELSE One

\* C24 as stated: the returned buffer equals the input below the delay and
\* is input[i] + feedback * output[i - delay] from the delay on, and the
\* input buffer is not modified.
EchoIsCausalFeedback ==
    EchoReturned
        => /\ Len(probe.echo.output) = Len(probe.input)
           /\ \A i \in 1..Len(probe.input) :
                 probe.echo.output[i] =
                     IF i <= probe.echo.delay_samples THEN probe.input[i]
                     ELSE RAdd(probe.input[i],
                               RMul(probe.feedback,
                                    probe.echo.output[i - probe.echo.delay_samples]))
           /\ probe.echo.audio = probe.input

\* C24: for a non-empty buffer and a delay of at least one sample the
\* returned buffer is scale * input[i] below the delay and scale * input[i]
\* + feedback * output[i - delay] from the delay on, where scale is 1 unless
\* the compounded peak exceeds 1 and 1 / peak then; with a delay of no
\* samples it is scale * (1 + feedback) * input[i]; the input buffer is not
\* modified.
EchoIsNormalizedCausalFeedback ==
    EchoReturned
        => /\ Len(probe.echo.output) = Len(probe.input)
           /\ EchoRecurrence(EchoScale)
           /\ RLe(Peak(probe.echo.output), One)
           /\ probe.echo.audio = probe.input

\* three full-scale samples, one sample of delay, feedback 0.5: the taps
\* compound to 1, 1.5, 1.75 and are divided by 1.75
EchoCompoundsAndNormalizes ==
    /\ EchoReturned
    /\ probe.input = <<One, One, One>>
    /\ probe.feedback = Q(1, 2)
    /\ probe.echo.delay_samples = 1
    /\ probe.echo.max_val = Q(7, 4)
    /\ probe.echo.output = <<Q(4, 7), Q(6, 7), One>>

\* a zero-size buffer has no peak
EchoOfEmptyBufferRaises ==
    (probe.call = "apply_simple_echo" /\ probe.input = <<>>)
        => probe.echo.raised = "ValueError"

\* ------------------------------------------------------------------------
\* Karplus-Strong
\* ------------------------------------------------------------------------
KarplusCalled == probe.call = "karplus_strong"

\* the first samples are the noise burst in order; every later sample is the
\* damped average of the two samples one period before
KarplusRecurrence ==
    \A i \in 1..Len(probe.karplus.output) :
        probe.karplus.output[i] =
            IF i <= Len(probe.noise) THEN probe.noise[i]
            ELSE RDiv(RMul(Q(996, 1000),
                           RAdd(probe.karplus.output[i - Len(probe.noise)],
                                probe.karplus.output[i - Len(probe.noise) + 1])),
                      Q(2, 1))

\* C25: for every frequency above zero and every duration karplus_strong
\* returns the requested number of samples, the first L of them the noise
\* seed in order and every later one 0.996 * (output[i-L] + output[i-L+1]) / 2.
KarplusReturnsDampedString ==
    KarplusCalled
        => /\ probe.karplus.raised = "None"
           /\ Len(probe.karplus.output) = probe.num_samples
           /\ KarplusRecurrence

\* the same for a delay line of at least two samples
KarplusDampedStringBelowNyquist ==
    (KarplusCalled /\ Len(probe.noise) >= 2)
        => /\ probe.karplus.raised = "None"
           /\ Len(probe.karplus.output) = probe.num_samples
           /\ KarplusRecurrence

KarplusAboveNyquistRaises ==
    (KarplusCalled /\ Len(probe.noise) < 2 /\ probe.num_samples > 0)
        => probe.karplus.raised = "IndexError"

KarplusSecondPeriodReached ==
    /\ KarplusCalled
    /\ probe.noise = <<One, Zero, Zero>>
    /\ probe.num_samples = 6
    /\ probe.karplus.output = <<One, Zero, Zero, Q(249, 500), Zero, Q(62001, 250000)>>

\* ------------------------------------------------------------------------
\* The layer editor
\* ------------------------------------------------------------------------
\* a layer's config with its nested dictionary read through
ConfigOfLayer(s, i) ==
    [volume |-> s.document[i].volume, note_name |-> s.document[i].note_name,
     advanced |-> s.dicts[s.document[i].advanced]]

\* C26: layer configs are never shared by reference: applying an edit to the
\* current layer, nested dictionaries included, changes the config of no
\* other layer and no preset data, whatever add, copy, cut, paste and
\* load-preset operations came before.
EditChangesOnlyCurrentLayer ==
    [][studio'.status = "applied"
           => /\ \A i \in DOMAIN studio.document :
                     i # studio.current_layer_index + 1
                         => ConfigOfLayer(studio', i) = ConfigOfLayer(studio, i)
              /\ studio'.dicts[PresetAdvanced] = studio.dicts[PresetAdvanced]]_vars

\* layers share a dictionary only through the preset that handed it out
SharingComesFromPreset ==
    \A i, j \in DOMAIN studio.document :
        (i # j /\ studio.document[i].advanced = studio.document[j].advanced)
            => studio.document[i].advanced = PresetAdvanced

\* C27: whenever the document has a layer, 0 <= current_layer_index < number
\* of layers after every editor operation, and no operation that indexes the
\* current layer fails to find one.
CurrentLayerExists ==
    Len(studio.document) > 0
        => /\ 0 <= studio.current_layer_index
           /\ studio.current_layer_index < Len(studio.document)
           /\ studio.status # "IndexError"

\* C30: whatever layer the document holds, one carrying note_name included,
\* export_to_wav and export_layer_to_wav build the render config without
\* error, as play_layer does.
ExportAcceptsEveryLayer == studio.status # "Export Error"

\* play_layer builds its config from any layer the editor can hold
PlayAcceptsEveryLayer ==
    studio.status = "Playback Error" => ~HasCurrent(studio)

\* ------------------------------------------------------------------------
\* Keyboard recorder
\* ------------------------------------------------------------------------
\* this step appends one note to recorded_notes
NoteAppended ==
    /\ Len(recorder'.recorded_notes) = Len(recorder.recorded_notes) + 1
    /\ SubSeq(recorder'.recorded_notes, 1, Len(recorder.recorded_notes))
           = recorder.recorded_notes

\* this step handles the release of a note key
ReleaseHandled == recorder'.now = recorder.now + 1 /\ recorder'.event.type = "release"

\* no two notes of one press, no negative duration, every note of the
\* session whose notes the list holds
NotesWellFormed(r) ==
    /\ \A i, j \in 1..Len(r.recorded_notes) :
           i # j => r.recorded_notes[i].press_time # r.recorded_notes[j].press_time
    /\ \A i \in 1..Len(r.recorded_notes) :
           /\ r.recorded_notes[i].duration >= 0
           /\ r.recorded_notes[i].session = r.session

\* C29: a note is appended to recorded_notes exactly when a note key is
\* released while recording is active and its press was captured during the
\* same recording session; no press yields more than one note and every
\* recorded duration is non-negative.
NoteForEveryCapturedRelease ==
    [][/\ NoteAppended <=> /\ ReleaseHandled
                           /\ recorder.is_recording
                           /\ recorder'.event.key \in recorder.captured
       /\ NotesWellFormed(recorder')]_vars

\* what keyReleaseEvent does: a note is appended exactly when the release
\* is handled in keyboard-play mode while recording and pressed_keys holds
\* the key
NoteForEveryStoredRelease ==
    [][/\ NoteAppended <=> /\ ReleaseHandled
                           /\ recorder.is_recording
                           /\ recorder.keyboard_focus_mode
                           /\ recorder'.event.key \in DOMAIN recorder.pressed_keys
       /\ NotesWellFormed(recorder')]_vars

\* every stored press was captured during the session that is current
StoredPressesOfThisSession ==
    \A k \in DOMAIN recorder.pressed_keys :
        recorder.pressed_keys[k].session = recorder.session

\* a release in keyboard-play mode has added the note of its captured press
NoteRecorded ==
    /\ recorder.event.type = "release"
    /\ recorder.is_recording
    /\ Len(recorder.recorded_notes) >= 1
    /\ recorder.recorded_notes[Len(recorder.recorded_notes)].key = recorder.event.key

\* ------------------------------------------------------------------------
\* SoundFont loading
\* ------------------------------------------------------------------------
\* C28: after any sequence of load_soundfont calls, successful or failed,
\* soundfont_id is None or the id of a soundfont still loaded in the synth,
\* and current_soundfont_path names that soundfont: a failed load leaves the
\* previous soundfont loaded.
LoadedFontStaysLoaded ==
    \/ soundfont_player.soundfont_id = "None"
    \/ /\ soundfont_player.soundfont_id \in soundfont_player.loaded
       /\ soundfont_player.current_soundfont_path = soundfont_player.soundfont_id

\* the player never names a font it has not loaded at some time
FontIdWasLoaded ==
    soundfont_player.soundfont_id # "None"
        => /\ soundfont_player.soundfont_id \in ExistingSoundFonts
           /\ soundfont_player.current_soundfont_path = soundfont_player.soundfont_id

====
